---- MODULE Spec2Model ----
(***************************************************************************)
(* Model of the Hacker News comment acquirer (src/src/scraper.ts), of the  *)
(* Markdown renderer (src/src/formatter.ts) and of the plugin's entry      *)
(* points (src/src/main.ts).                                               *)
(*                                                                         *)
(* Spec      : one call of HNScraper.scrapeComments, one action per        *)
(*             await point (the call itself, the root item response, one   *)
(*             comment item response, the HTML page response).             *)
(*             Then formatComments is called with the returned PostInfo.   *)
(* SpecParse : HNScraper.parseComments as a pure function of the page's    *)
(*             comment rows.                                               *)
(* SpecText  : CommentFormatter.formatCommentText as a pure function of a  *)
(*             comment body and the settings.                              *)
(* SpecDecode: CommentFormatter.decodeHtmlEntities as a pure function of   *)
(*             a text.                                                     *)
(* SpecTitle : the frontmatter and the heading formatComments writes, as a *)
(*             pure function of the title.                                 *)
(* SpecDates : the structured strategy of scrapeComments while the         *)
(*             settings tab changes settings.dateFormat.                   *)
(* SpecFetch : the callback of the plugin's entry points (src/src/main.ts) *)
(*             from the call of scrapeComments to the end of createNote,   *)
(*             for several calls at a time; SpecFetchFair adds that every  *)
(*             awaited call is answered.                                   *)
(* SpecModal : the URL modal that calls the callback.                      *)
(*                                                                         *)
(* JavaScript objects are modelled as a heap: `comments` is the sequence   *)
(* of HNComment objects in allocation order, and every array of comments   *)
(* (rootComments, comment.children) is a sequence of heap keys.            *)
(***************************************************************************)
EXTENDS Integers, Sequences, FiniteSets, TLC

VARIABLES
    pc,            \* position of the scrapeComments call
    url,           \* argument of scrapeComments (sequence of URL tokens)
    itemId,        \* match[1] of /item\?id=(\d+)/
    requests,      \* log of requestUrl calls, in issue order
    stack,         \* activation frames of fetchCommentsRecursively
    comments,      \* heap of HNComment objects
    rootComments,  \* array of top-level comments (heap keys)
    rootOutcome,   \* how the root item request ended
    outcome,       \* per comment id: how its item request ended
    listed,        \* comment ids seen in the kids of a record that was read
    reported,      \* `descendants` count carried by the root record
    htmlOutcome,   \* how the HTML page request ended
    rows,          \* .comtr rows of the fetched HTML page
    via,           \* strategy that produced the returned PostInfo
    postInfo,      \* the returned HNPostInfo
    error,         \* the error thrown to the caller
    settings,      \* the settings the CommentFormatter was constructed with
    markdown,      \* the lines of the string formatComments returned
    html,          \* argument of formatCommentText: child nodes of doc.body
    text,          \* argument of decodeHtmlEntities
    formatted,     \* the string a text function returned
    dateFormat,    \* plugin.settings.dateFormat
    startFormat,   \* the dateFormat in effect when scrapeComments was called
    times,         \* per comment id: the pattern its `time` was formatted with
    modal,         \* the HNURLModal that is open, if any
    fetches,       \* the calls of the onSubmit callback of the plugin
    vault          \* the paths that exist in the vault

\* state of the renderer, and of the text functions run on their own
renderVars == << settings, markdown >>
textVars == << html, text, formatted >>

\* the timestamp format of the settings tab and its use by the scraper
dateVars == << dateFormat, startFormat, times >>

\* state of the plugin's entry points and of the vault
fetchVars == << modal, fetches, vault >>

vars == << pc, url, itemId, requests, stack, comments, rootComments,
           rootOutcome, outcome, listed, reported, htmlOutcome, rows, via,
           postInfo, error, renderVars, textVars, dateVars, fetchVars >>

----------------------------------------------------------------------------
(* Bounds of the model.                                                    *)

\* number of comments in the source tree of the post
MaxComments == 6
\* rows of a page given to parseComments under SpecParse
MaxRows == 6
\* rows of the page fetched by scrapeComments under Spec
MaxPageRows == 2
\* deepest indentation level a row carries
MaxLevel == 2
\* child nodes of a comment body given to formatCommentText
MaxNodes == 2
\* pieces of a text given to decodeHtmlEntities
MaxChunks == 2

\* the longest title, in parts
MaxTitleParts == 3
\* calls of the onSubmit callback
MaxFetches == 2
\* notes of the same name that are in the vault at the start
MaxExisting == 1

----------------------------------------------------------------------------
(* Values.                                                                 *)

\* the elements of an array
Range(seq) == { seq[i] : i \in 1..Len(seq) }

\* `undefined` / null in a field that otherwise holds an id
NoId == << >>

\* id: `comment_${commentId}`
ApiCommentId(commentId) == << "comment_", commentId >>

\* the id attribute of the n-th .comtr row of a page
RowIdent(n) == << "", n >>

\* width attribute of `.ind img` is 40 pixels per level
IndentUnit == 40

Digits == { "0", "1", "2", "3", "4", "5", "6", "7", "8", "9" }

HNHost == "news.ycombinator.com"

\* an HNComment object (author, text and time do not take part in the tree)
NewComment(id, level, parentId) ==
    [ id |-> id, level |-> level, children |-> << >>, parentId |-> parentId ]

NoPostInfo == [ comments |-> << >>, postId |-> << >>, commentCount |-> 0 ]

\* DEFAULT_SETTINGS, as far as the formatter reads it
DEFAULT_SETTINGS == [ enhancedLinks |-> FALSE, wrapHtmlTags |-> TRUE ]

\* no string was returned by formatComments yet
NotFormatted == << >>

\* DEFAULT_SETTINGS.dateFormat
DEFAULT_DATE_FORMAT == "YYYY-MM-DD, hh:mm:ss"

\* no comment was built from the record
NoTime == "none"

\* no modal is open
NoModal == [ open |-> FALSE, entry |-> "none", url |-> << >> ]

\* the settings are the defaults and no acquisition has been started
DatesIdle ==
    /\ dateFormat = DEFAULT_DATE_FORMAT
    /\ startFormat = NoTime
    /\ times = [ n \in 2..(MaxComments + 1) |-> NoTime ]

\* no modal was opened, no fetch was asked for and the vault holds no note
FetchIdle ==
    /\ modal = NoModal
    /\ fetches = << >>
    /\ vault = {}

----------------------------------------------------------------------------
(* isValidHNUrl and the item-id extraction: the two regular expressions,   *)
(* run over a URL given as a sequence of tokens.                           *)

RECURSIVE DigitRun(_, _)
\* length of the longest run of digits of s that starts at position i
DigitRun(s, i) ==
    IF i > Len(s) \/ s[i] \notin Digits THEN 0 ELSE 1 + DigitRun(s, i + 1)

\* s has the tokens lit at positions i, i+1, ...
HasAt(s, i, lit) ==
    /\ i + Len(lit) - 1 <= Len(s)
    /\ \A k \in 1..Len(lit) : s[i + k - 1] = lit[k]

\* the test without the anchored scheme and host: /item\?id=\d+/.test(url)
isValidHNUrl_pathOnly(u) ==
    \E i \in 1..Len(u) : HasAt(u, i, << "item?id=" >>) /\ DigitRun(u, i + 1) >= 1

\* /^https?:\/\/news\.ycombinator\.com\/item\?id=\d+/.test(url)
isValidHNUrl(u) ==
    /\ HasAt(u, 1, << "http" >>)
    /\ LET p == IF HasAt(u, 2, << "s" >>) THEN 3 ELSE 2
       IN  /\ HasAt(u, p, << "://", HNHost, "/", "item?id=" >>)
           /\ DigitRun(u, p + 4) >= 1

\* positions where /item\?id=(\d+)/ matches
ItemIdMatches(u) ==
    { i \in 1..Len(u) : HasAt(u, i, << "item?id=" >>) /\ DigitRun(u, i + 1) >= 1 }

\* url.match(/item\?id=(\d+)/): match[1] of the leftmost match, or null
ExtractItemId(u) ==
    IF ItemIdMatches(u) = {} THEN NoId
    ELSE LET i == CHOOSE j \in ItemIdMatches(u) : \A k \in ItemIdMatches(u) : j <= k
         IN  SubSeq(u, i + 1, i + DigitRun(u, i + 1))

----------------------------------------------------------------------------
(* The source of the structured strategy: item records of the read-only    *)
(* item API.  The post is record 1 and the comments are the records        *)
(* 2 .. MaxComments + 1; record n lists the records 2n and 2n + 1 as kids. *)

\* the record of the post
PostRecord == 1

CommentIds == 2..(MaxComments + 1)

\* the kids a record lists, in source order
KidsOf(n) == SelectSeq(<< 2 * n, 2 * n + 1 >>, LAMBDA k : k \in CommentIds)

\* the record that lists n among its kids
SourceParent(n) == n \div 2

\* what requestUrl can produce for an item URL: it rejects, or resolves
\* with a status and a JSON body (null, or a record)
ItemThrows == [ throws |-> TRUE, status |-> 0, isNull |-> TRUE,
                deleted |-> FALSE, dead |-> FALSE, kids |-> << >>,
                descendants |-> 0 ]

ItemStatus(st) == [ ItemThrows EXCEPT !.throws = FALSE, !.status = st ]

\* status 200 with the JSON body `null`
ItemNull == ItemStatus(200)

ItemRecord(del, dd, kids, desc) ==
    [ throws |-> FALSE, status |-> 200, isNull |-> FALSE,
      deleted |-> del, dead |-> dd, kids |-> kids, descendants |-> desc ]

\* the kids lists record n can carry: none, or its kids in the source
KidLists(n) == { << >>, KidsOf(n) }

\* a count the root record may report in its `descendants` field
ReportedCounts == { 0, 2 * MaxComments }

\* responses to the request for the post record
RootResponses ==
    { ItemThrows, ItemStatus(404), ItemNull }
    \cup { ItemRecord(FALSE, FALSE, ks, d) :
             ks \in KidLists(PostRecord), d \in ReportedCounts }

\* responses to the request for comment n
CommentResponses(n) ==
    { ItemThrows, ItemStatus(404), ItemNull }
    \cup { ItemRecord(del, dd, ks, 0) :
             del \in BOOLEAN, dd \in BOOLEAN, ks \in KidLists(n) }

AllCommentResponses == UNION { CommentResponses(n) : n \in CommentIds }

----------------------------------------------------------------------------
(* The source of the flat-list strategy: the .comtr rows of the page.      *)

Widths == { l * IndentUnit : l \in 0..MaxLevel }

\* a page of len rows: row i carries the indentation width w[i] and its id
\* attribute, except row noId, which has no id (noId = 0: every row has one).
\* `removed` says that the row shows a comment the site marks [deleted],
\* [dead] or [flagged]; parseComments reads no such mark.
Page(len, w, noId) ==
    [ i \in 1..len |->
        [ id |-> IF i = noId THEN NoId ELSE RowIdent(i), width |-> w[i],
          removed |-> FALSE ] ]

\* the rows of a fetched page that may show a removed comment: any one row
\* of a page whose rows all have an id
RemovedChoices(len, noId) == IF noId = 0 THEN 0..len ELSE { 0 }

\* the page with row r showing a removed comment (r = 0: no such row)
MarkRemoved(page, r) ==
    IF r = 0 THEN page ELSE [ page EXCEPT ![r].removed = TRUE ]

\* parseInt(indentEl.getAttribute('width') || '0') / 40, for the widths the
\* site emits (multiples of the per-level unit)
RowLevel(row) == row.width \div IndentUnit

RECURSIVE ReadRows(_, _, _)
\* first pass of parseComments: one HNComment per row that has an id
ReadRows(rs, i, acc) ==
    IF i > Len(rs) THEN acc
    ELSE IF rs[i].id = NoId THEN ReadRows(rs, i + 1, acc)
    ELSE ReadRows(rs, i + 1,
                  Append(acc, NewComment(rs[i].id, RowLevel(rs[i]), NoId)))

\* findParentComment's loop run from the first comment forward: the
\* shallowest-first candidate instead of the nearest one
ScanBack_fromFront(cs, i, level) ==
    IF \E j \in 1..i : cs[j].level < level
    THEN CHOOSE j \in 1..i :
             /\ cs[j].level < level
             /\ \A m \in 1..(j - 1) : ~(cs[m].level < level)
    ELSE 0

RECURSIVE ScanBack(_, _, _)
\* the loop of findParentComment: from index i down to the first comment
ScanBack(cs, i, level) ==
    IF i < 1 THEN 0
    ELSE IF cs[i].level < level THEN i
    ELSE ScanBack(cs, i - 1, level)

\* findParentComment(comments, childComment): heap key of the parent, 0 for null
findParentComment(cs, child) == ScanBack(cs, child - 1, cs[child].level)

RECURSIVE BuildTree_dropOrphans(_, _, _, _)
\* parseComments' second pass without its `else` branch for a missing parent
BuildTree_dropOrphans(all, k, cs, roots) ==
    IF k > Len(all) THEN [ comments |-> cs, rootComments |-> roots ]
    ELSE IF cs[k].level = 0
    THEN BuildTree_dropOrphans(all, k + 1, cs, Append(roots, k))
    ELSE LET parent == ScanBack(cs, k - 1, cs[k].level)
         IN  IF parent # 0
             THEN BuildTree_dropOrphans(all, k + 1,
                    [ cs EXCEPT ![k].parentId = cs[parent].id,
                                ![parent].children = Append(@, k) ],
                    roots)
             ELSE BuildTree_dropOrphans(all, k + 1, cs, roots)

RECURSIVE BuildTree(_, _, _, _)
\* second pass of parseComments: allComments.forEach(comment => ...)
BuildTree(all, k, cs, roots) ==
    IF k > Len(all) THEN [ comments |-> cs, rootComments |-> roots ]
    ELSE IF cs[k].level = 0 THEN BuildTree(all, k + 1, cs, Append(roots, k))
    ELSE LET parent == findParentComment(cs, k)
         IN  IF parent # 0
             THEN BuildTree(all, k + 1,
                    [ cs EXCEPT ![k].parentId = cs[parent].id,
                                ![parent].children = Append(@, k) ],
                    roots)
             ELSE BuildTree(all, k + 1, cs, Append(roots, k))

\* parseComments(html), as far as the comment tree goes
parseComments(rs) ==
    LET all == ReadRows(rs, 1, << >>)
    IN  BuildTree(all, 1, all, << >>)

\* countTotalComments without the recursion into children
countTotalComments_topLevelOnly(cs, list) == Len(list)

RECURSIVE countTotalComments(_, _)
\* countTotalComments(comments): the array's length plus its members' subtrees
countTotalComments(cs, list) ==
    IF list = << >> THEN 0
    ELSE 1 + countTotalComments(cs, cs[Head(list)].children)
           + countTotalComments(cs, Tail(list))

----------------------------------------------------------------------------
(* scrapeComments.                                                         *)

\* the URLs a caller passes: well-formed item URLs, one of them with text
\* after the digits, and URLs with one part of the shape wrong
Urls ==
    { << "http", "s", "://", HNHost, "/", "item?id=", "1" >>,
      << "http", "://", HNHost, "/", "item?id=", "1", "2" >>,
      << "http", "s", "://", HNHost, "/", "item?id=", "1", "x" >>,
      << "ftp", "://", HNHost, "/", "item?id=", "1" >>,
      << "x", "http", "s", "://", HNHost, "/", "item?id=", "1" >>,
      << "http", "s", "://", "example.com", "/", "item?id=", "1" >>,
      << "http", "s", "://", HNHost, "/", "user?id=", "1" >>,
      << "http", "s", "://", HNHost, "/", "item?id=" >>,
      << "http", "s", "://", HNHost, "/", "item?id=", "x", "1" >>,
      << "http", "s", "://", HNHost, "/", "x", "item?id=", "1" >>,
      << >> }

\* requestUrl(itemUrl) for the post, requestUrl(commentUrl) for a comment,
\* requestUrl(url) for the page
PostRequest(id) == << "post", id >>
CommentRequest(commentId) == << "comment", commentId >>
HtmlRequest(u) == << "html", u >>

\* a call of fetchCommentsRecursively that drops its parentId argument
Frame_noParentId(ids, parentArray, level, parentId) ==
    [ commentIds |-> ids, i |-> 1, parentArray |-> parentArray,
      level |-> level, parentId |-> NoId ]

\* a call of fetchCommentsRecursively: its arguments and the position of its
\* for-of loop
Frame(ids, parentArray, level, parentId) ==
    [ commentIds |-> ids, i |-> 1, parentArray |-> parentArray,
      level |-> level, parentId |-> parentId ]

\* the for-of loop without its step: the same commentId is taken again
NextIteration_sameId(st) == st

RECURSIVE NextIteration(_)
\* the for-of loops move on: the innermost loop takes its next commentId,
\* a loop that has none left returns to the loop that called it
NextIteration(st) ==
    IF st = << >> THEN << >>
    ELSE LET top == st[Len(st)]
         IN  IF top.i < Len(top.commentIds)
             THEN [ st EXCEPT ![Len(st)].i = top.i + 1 ]
             ELSE NextIteration(SubSeq(st, 1, Len(st) - 1))

\* the commentId whose request the traversal awaits
CurrentId(st) == st[Len(st)].commentIds[st[Len(st)].i]

\* the class of a comment response: the request failed, the comment is
\* removed, or a comment node is built from it
ResponseClass(r) ==
    IF r.throws \/ r.status # 200 \/ r.isNull THEN "failed"
    ELSE IF r.deleted \/ r.dead THEN "removed"
    ELSE "ok"

\* the pattern a timestamp is formatted with: `settings.dateFormat ?
\* settings.dateFormat : DEFAULT_SETTINGS.dateFormat`
FormatUsed(df) == IF df # "" THEN df ELSE DEFAULT_DATE_FORMAT

\* the PostInfo scrapeComments returns for a forest
MakePostInfo(cs, roots, id) ==
    [ comments |-> roots, postId |-> id,
      commentCount |-> countTotalComments(cs, roots) ]

Init ==
    /\ pc = "idle"
    /\ url = << >>
    /\ itemId = NoId
    /\ requests = << >>
    /\ stack = << >>
    /\ comments = << >>
    /\ rootComments = << >>
    /\ rootOutcome = "none"
    /\ outcome = [ n \in CommentIds |-> "none" ]
    /\ listed = {}
    /\ reported = 0
    /\ htmlOutcome = "none"
    /\ rows = << >>
    /\ via = "none"
    /\ postInfo = NoPostInfo
    /\ error = "none"
    /\ settings = DEFAULT_SETTINGS
    /\ markdown = NotFormatted
    /\ html = << >>
    /\ text = << >>
    /\ formatted = << >>
    /\ DatesIdle
    /\ FetchIdle

\* scrapeComments(url) up to its first await: validation, id extraction,
\* and the request for the root record
Scrape(u) ==
    /\ pc = "idle"
    /\ url' = u
    /\ IF ~isValidHNUrl(u)
       THEN /\ pc' = "thrown"
            /\ error' = "InvalidUrl"
            /\ UNCHANGED << itemId, requests >>
       ELSE IF ExtractItemId(u) = NoId
       THEN /\ pc' = "thrown"
            /\ error' = "NoItemId"
            /\ UNCHANGED << itemId, requests >>
       ELSE /\ itemId' = ExtractItemId(u)
            /\ requests' = Append(requests, PostRequest(ExtractItemId(u)))
            /\ pc' = "awaitRoot"
            /\ UNCHANGED error
    /\ startFormat' = dateFormat
    /\ UNCHANGED << stack, comments, rootComments, rootOutcome, outcome,
                    listed, reported, htmlOutcome, rows, via, postInfo >>
    /\ UNCHANGED << renderVars, textVars, dateFormat, times, fetchVars >>

\* fetchWithHackerNewsAPI throws on the root response: requestUrl rejects,
\* the status is not 200, or `item.url` is read on a null record
RootThrows(r) == r.throws \/ r.status # 200 \/ r.isNull

\* `apiResult.comments.length > 0` with every result held to have comments
HasComments_always(roots) == TRUE

\* `apiResult.comments.length > 0` with no result held to have comments
HasComments_never(roots) == FALSE

\* `apiResult.comments.length > 0`: the API forest is returned
HasComments(roots) == Len(roots) > 0

\* how the request for the root record ended
RootOutcomeOf(r) ==
    IF r.throws THEN "rejected"
    ELSE IF r.status # 200 THEN "status"
    ELSE IF r.isNull THEN "null"
    ELSE IF r.kids = << >> THEN "nokids"
    ELSE "kids"

\* the fallback starts: `await requestUrl(url)`
RequestHtml ==
    /\ requests' = Append(requests, HtmlRequest(url))
    /\ pc' = "awaitHtml"
    /\ UNCHANGED << via, postInfo >>

\* scrapeComments once fetchWithHackerNewsAPI has returned a forest: it is
\* returned if it has a top-level comment, else the fallback starts
AfterApi(cs, roots) ==
    IF HasComments(roots)
    THEN /\ pc' = "returned"
         /\ via' = "api"
         /\ postInfo' = MakePostInfo(cs, roots, itemId)
         /\ UNCHANGED requests
    ELSE RequestHtml

\* fetchWithHackerNewsAPI on a root record it could read: without kids it
\* returns no comments, with kids the traversal starts
RootRead(r) ==
    IF r.kids = << >>
    THEN /\ AfterApi(comments, << >>)
         /\ UNCHANGED << stack, listed >>
    ELSE /\ stack' = << Frame(r.kids, 0, 0, NoId) >>
         /\ listed' = Range(r.kids)
         /\ requests' = Append(requests, CommentRequest(r.kids[1]))
         /\ pc' = "awaitComment"
         /\ UNCHANGED << via, postInfo >>

\* the root response with the API error rethrown to the caller instead of
\* being caught
RootResponse_fatal(r) ==
    /\ pc = "awaitRoot"
    /\ rootOutcome' = RootOutcomeOf(r)
    /\ reported' = r.descendants
    /\ IF RootThrows(r)
       THEN /\ pc' = "thrown"
            /\ error' = "ApiFailed"
            /\ UNCHANGED << requests, stack, listed, via, postInfo >>
       ELSE /\ RootRead(r)
            /\ UNCHANGED error
    /\ UNCHANGED << url, itemId, comments, rootComments, outcome, htmlOutcome,
                    rows >>
    /\ UNCHANGED << renderVars, textVars, dateVars, fetchVars >>

\* fetchWithHackerNewsAPI after the root response, up to the next await: a
\* throw is caught by scrapeComments and the fallback starts
RootResponse(r) ==
    /\ pc = "awaitRoot"
    /\ rootOutcome' = RootOutcomeOf(r)
    /\ reported' = r.descendants
    /\ IF RootThrows(r)
       THEN /\ RequestHtml
            /\ UNCHANGED << stack, listed >>
       ELSE RootRead(r)
    /\ UNCHANGED << url, itemId, comments, rootComments, outcome, htmlOutcome,
                    rows, error >>
    /\ UNCHANGED << renderVars, textVars, dateVars, fetchVars >>

\* the heap and the root array with `unshift` taken for `push`
PushComment_unshift(cs, roots, frame, commentId) ==
    LET key == Len(cs) + 1
        cs1 == Append(cs, NewComment(ApiCommentId(commentId), frame.level,
                                     frame.parentId))
    IN  IF frame.parentArray = 0
        THEN [ comments |-> cs1, rootComments |-> << key >> \o roots ]
        ELSE [ comments |-> [ cs1 EXCEPT ![frame.parentArray].children =
                                             << key >> \o @ ],
               rootComments |-> roots ]

\* the heap and the root array after `parentArray.push(comment)`
PushComment(cs, roots, frame, commentId) ==
    LET key == Len(cs) + 1
        cs1 == Append(cs, NewComment(ApiCommentId(commentId), frame.level,
                                     frame.parentId))
    IN  IF frame.parentArray = 0
        THEN [ comments |-> cs1, rootComments |-> Append(roots, key) ]
        ELSE [ comments |-> [ cs1 EXCEPT ![frame.parentArray].children =
                                             Append(@, key) ],
               rootComments |-> roots ]

\* the frames after a response, with `continue` taken for `break`: a
\* skipped comment ends the loop over its siblings
StackAfter_breakOnSkip(st, r, commentId, key) ==
    IF ResponseClass(r) = "ok" /\ r.kids # << >>
    THEN Append(st, Frame(r.kids, key, st[Len(st)].level + 1,
                          ApiCommentId(commentId)))
    ELSE IF ResponseClass(r) = "ok" THEN NextIteration(st)
    ELSE NextIteration(SubSeq(st, 1, Len(st) - 1))

\* the frames after a response, with the kids of a removed comment fetched
\* into the array the removed comment was meant for
StackAfter_descendRemoved(st, r, commentId, key) ==
    IF ResponseClass(r) = "ok" /\ r.kids # << >>
    THEN Append(st, Frame(r.kids, key, st[Len(st)].level + 1,
                          ApiCommentId(commentId)))
    ELSE IF ResponseClass(r) = "removed" /\ r.kids # << >>
    THEN Append(st, Frame(r.kids, st[Len(st)].parentArray,
                          st[Len(st)].level, st[Len(st)].parentId))
    ELSE NextIteration(st)

\* the frames after the response r to the request for commentId was handled
\* by the loop body: a recursive call for the kids of a new comment, else
\* the next iteration
StackAfter(st, r, commentId, key) ==
    IF ResponseClass(r) = "ok" /\ r.kids # << >>
    THEN Append(st, Frame(r.kids, key, st[Len(st)].level + 1,
                          ApiCommentId(commentId)))
    ELSE NextIteration(st)

\* one iteration of the loop of fetchCommentsRecursively after its response,
\* up to the next await; when the outermost call returns, scrapeComments
\* goes on with the forest
CommentResponse(r) ==
    /\ pc = "awaitComment"
    /\ r \in CommentResponses(CurrentId(stack))
    /\ LET frame == stack[Len(stack)]
           commentId == CurrentId(stack)
           pushed == IF ResponseClass(r) = "ok"
                     THEN PushComment(comments, rootComments, frame, commentId)
                     ELSE [ comments |-> comments, rootComments |-> rootComments ]
           st == StackAfter(stack, r, commentId, Len(comments) + 1)
       IN  /\ outcome' = [ outcome EXCEPT ![commentId] = ResponseClass(r) ]
           /\ listed' = IF ResponseClass(r) = "ok"
                        THEN listed \cup Range(r.kids)
                        ELSE listed
           /\ times' = IF ResponseClass(r) = "ok"
                       THEN [ times EXCEPT ![commentId] = FormatUsed(dateFormat) ]
                       ELSE times
           /\ comments' = pushed.comments
           /\ rootComments' = pushed.rootComments
           /\ stack' = st
           /\ IF st # << >>
              THEN /\ requests' = Append(requests, CommentRequest(CurrentId(st)))
                   /\ pc' = "awaitComment"
                   /\ UNCHANGED << via, postInfo >>
              ELSE AfterApi(pushed.comments, pushed.rootComments)
    /\ UNCHANGED << url, itemId, rootOutcome, reported, htmlOutcome, rows,
                    error >>
    /\ UNCHANGED << renderVars, textVars, dateFormat, startFormat, fetchVars >>

\* the page was fetched: it is parsed and the result returned
ReturnParsed(page) ==
    LET parsed == parseComments(page)
    IN  /\ rows' = page
        /\ comments' = parsed.comments
        /\ rootComments' = parsed.rootComments
        /\ via' = "html"
        /\ postInfo' = MakePostInfo(parsed.comments, parsed.rootComments,
                                    itemId)
        /\ pc' = "returned"
        /\ UNCHANGED error

\* the page response with a failed fetch treated as a page without rows
HtmlResponse_swallow(throws, page) ==
    /\ pc = "awaitHtml"
    /\ htmlOutcome' = IF throws THEN "rejected" ELSE "ok"
    /\ IF throws THEN ReturnParsed(<< >>) ELSE ReturnParsed(page)
    /\ UNCHANGED << url, itemId, requests, stack, rootOutcome, outcome,
                    listed, reported >>
    /\ UNCHANGED << renderVars, textVars, dateVars, fetchVars >>

\* the fallback after the page response: requestUrl rejects and an error is
\* thrown to the caller, or the page is parsed and returned
HtmlResponse(throws, page) ==
    /\ pc = "awaitHtml"
    /\ htmlOutcome' = IF throws THEN "rejected" ELSE "ok"
    /\ IF throws
       THEN /\ pc' = "thrown"
            /\ error' = "FetchFailed"
            /\ UNCHANGED << rows, comments, rootComments, via, postInfo >>
       ELSE ReturnParsed(page)
    /\ UNCHANGED << url, itemId, requests, stack, rootOutcome, outcome,
                    listed, reported >>
    /\ UNCHANGED << renderVars, textVars, dateVars, fetchVars >>

----------------------------------------------------------------------------
(* formatComments.  The string it returns is modelled as the sequence of   *)
(* its lines (every piece the code appends ends with a line break).  A     *)
(* line is a record: the number of spaces it begins with, its kind, the    *)
(* value it carries and, for a summary line, which of its parts are links. *)
(* The heap carries no author, time, text, title or date, so a summary     *)
(* line names its comment by id, the converted text of a comment is one    *)
(* body line, and the optional title and original-url lines of the         *)
(* frontmatter are left out.                                               *)

Line(indent, kind, of, links) ==
    [ indent |-> indent, kind |-> kind, of |-> of, links |-> links ]

\* `---`: the frontmatter delimiters and the rule between top-level comments
RuleLine == Line(0, "---", << >>, {})

BlankLine == Line(0, "", << >>, {})

\* the settings a formatter can be constructed with
Settings == [ enhancedLinks : BOOLEAN, wrapHtmlTags : BOOLEAN ]

\* '  '.repeat(depth)
IndentOf(depth) == 2 * depth

\* comment.id && comment.id.startsWith('comment_')
HasCommentPrefix(id) == id # NoId /\ id[1] = "comment_"

\* the parts of the summary line that are rendered as links
SummaryLinks(comment, s) ==
    IF ~s.enhancedLinks THEN {}
    ELSE IF HasCommentPrefix(comment.id) THEN { "author", "time" }
    ELSE { "author" }

RECURSIVE formatCommentList(_, _, _, _)
RECURSIVE formatComment(_, _, _, _)
\* formatComment(comment, depth, sourceUrl): the summary line, the indented
\* text, an empty line, then the children one level deeper
formatComment(cs, k, depth, s) ==
    << Line(IndentOf(depth), "summary", cs[k].id, SummaryLinks(cs[k], s)),
       Line(IndentOf(depth) + 2, "body", cs[k].id, {}),
       BlankLine >>
    \o formatCommentList(cs, cs[k].children, depth + 1, s)

\* comment.children.forEach(child => markdown += formatComment(child, depth + 1))
formatCommentList(cs, list, depth, s) ==
    IF list = << >> THEN << >>
    ELSE formatComment(cs, Head(list), depth, s)
         \o formatCommentList(cs, Tail(list), depth, s)

\* the rule is appended after every top-level comment: `index < comments.length`
NeedsRule_always(index, length) == index < length

\* `index < comments.length - 1`: the rule is appended after this comment
NeedsRule(index, length) == index < length - 1

RECURSIVE formatTopLevel(_, _, _, _)
\* comments.forEach((comment, index) => ...), from the given index on
formatTopLevel(cs, list, index, s) ==
    IF index >= Len(list) THEN << >>
    ELSE formatComment(cs, list[index + 1], 0, s)
         \o (IF NeedsRule(index, Len(list)) THEN << RuleLine, BlankLine >>
             ELSE << >>)
         \o formatTopLevel(cs, list, index + 1, s)

\* formatComments(postInfo, sourceUrl)
formatComments(info, cs, sourceUrl, s) ==
    << RuleLine,
       Line(0, "source", sourceUrl, {}),
       Line(0, "post-id", info.postId, {}),
       Line(0, "date", << >>, {}),
       Line(0, "comment-count", << info.commentCount >>, {}),
       RuleLine,
       BlankLine,
       Line(0, "#", << >>, {}),
       BlankLine,
       Line(0, "##", << "Comments" >>, {}),
       BlankLine >>
    \o formatTopLevel(cs, info.comments, 0, s)

\* the caller of scrapeComments goes on with a PostInfo that has comments
\* (main.ts: `if (!postInfo.comments.length) return`)
CanFormat == pc = "returned" /\ postInfo.comments # << >>

\* formatComments with the top-level array emptied while it is walked
FormatComments_consuming(s) ==
    /\ CanFormat
    /\ settings' = s
    /\ markdown' = formatComments(postInfo, comments, url, s)
    /\ postInfo' = [ postInfo EXCEPT !.comments = << >> ]
    /\ UNCHANGED << pc, url, itemId, requests, stack, comments, rootComments,
                    rootOutcome, outcome, listed, reported, htmlOutcome, rows,
                    via, error, textVars, dateVars, fetchVars >>

\* new CommentFormatter(settings).formatComments(postInfo, url), called with
\* the PostInfo scrapeComments returned
FormatComments(s) ==
    /\ CanFormat
    /\ settings' = s
    /\ markdown' = formatComments(postInfo, comments, url, s)
    /\ UNCHANGED << pc, url, itemId, requests, stack, comments, rootComments,
                    rootOutcome, outcome, listed, reported, htmlOutcome, rows,
                    via, postInfo, error, textVars, dateVars, fetchVars >>

Next ==
    \/ \E u \in Urls : Scrape(u)
    \/ \E r \in RootResponses : RootResponse(r)
    \/ \E r \in AllCommentResponses : CommentResponse(r)
    \/ \E len \in 0..MaxPageRows : \E w \in [ 1..len -> Widths ] :
          \E noId \in 0..len : \E r \in RemovedChoices(len, noId) :
             HtmlResponse(FALSE, MarkRemoved(Page(len, w, noId), r))
    \/ HtmlResponse(TRUE, << >>)
    \/ \E e \in BOOLEAN :
          FormatComments([ DEFAULT_SETTINGS EXCEPT !.enhancedLinks = e ])

Spec == Init /\ [][Next]_vars

----------------------------------------------------------------------------
(* parseComments on its own.                                               *)

InitParse ==
    /\ pc = "parse"
    /\ \E len \in 0..MaxRows : \E w \in [ 1..len -> Widths ] :
          \E noId \in 0..len : rows = Page(len, w, noId)
    /\ url = << >>
    /\ itemId = NoId
    /\ requests = << >>
    /\ stack = << >>
    /\ comments = << >>
    /\ rootComments = << >>
    /\ rootOutcome = "none"
    /\ outcome = [ n \in CommentIds |-> "none" ]
    /\ listed = {}
    /\ reported = 0
    /\ htmlOutcome = "none"
    /\ via = "none"
    /\ postInfo = NoPostInfo
    /\ error = "none"
    /\ settings = DEFAULT_SETTINGS
    /\ markdown = NotFormatted
    /\ html = << >>
    /\ text = << >>
    /\ formatted = << >>
    /\ DatesIdle
    /\ FetchIdle

\* parseComments applied to the rows
ParseRows ==
    /\ pc = "parse"
    /\ comments' = parseComments(rows).comments
    /\ rootComments' = parseComments(rows).rootComments
    /\ pc' = "parsed"
    /\ UNCHANGED << url, itemId, requests, stack, rootOutcome, outcome,
                    listed, reported, htmlOutcome, rows, via, postInfo,
                    error >>
    /\ UNCHANGED << renderVars, textVars, dateVars, fetchVars >>

NextParse == ParseRows

SpecParse == InitParse /\ [][NextParse]_vars

----------------------------------------------------------------------------
(* The structured strategy while the settings tab is open: the text field  *)
(* of the timestamp format can change settings.dateFormat between two      *)
(* awaits of an acquisition.                                               *)

\* values of the `Timestamp format` text field: the default pattern,
\* another pattern, and the empty field
DateFormats == { DEFAULT_DATE_FORMAT, "X", "" }

\* the responses to the request for comment n that are offered here: the
\* records of a comment that is not removed
DatedResponses(n) == { ItemRecord(FALSE, FALSE, ks, 0) : ks \in KidLists(n) }

InitDates ==
    /\ pc = "idle"
    /\ url = << >>
    /\ itemId = NoId
    /\ requests = << >>
    /\ stack = << >>
    /\ comments = << >>
    /\ rootComments = << >>
    /\ rootOutcome = "none"
    /\ outcome = [ n \in CommentIds |-> "none" ]
    /\ listed = {}
    /\ reported = 0
    /\ htmlOutcome = "none"
    /\ rows = << >>
    /\ via = "none"
    /\ postInfo = NoPostInfo
    /\ error = "none"
    /\ settings = DEFAULT_SETTINGS
    /\ markdown = NotFormatted
    /\ html = << >>
    /\ text = << >>
    /\ formatted = << >>
    /\ dateFormat \in DateFormats
    /\ startFormat = NoTime
    /\ times = [ n \in CommentIds |-> NoTime ]
    /\ FetchIdle

\* onChange of the text field: settings.dateFormat = value, then the
\* settings are saved
SetDateFormat(value) ==
    /\ dateFormat # value
    /\ dateFormat' = value
    /\ UNCHANGED << pc, url, itemId, requests, stack, comments, rootComments,
                    rootOutcome, outcome, listed, reported, htmlOutcome, rows,
                    via, postInfo, error, renderVars, textVars, startFormat,
                    times, fetchVars >>

NextDates ==
    \/ \E u \in Urls : Scrape(u)
    \/ \E r \in RootResponses : RootResponse(r)
    \/ \E n \in CommentIds : \E r \in DatedResponses(n) : CommentResponse(r)
    \/ \E value \in DateFormats : SetDateFormat(value)

SpecDates == InitDates /\ [][NextDates]_vars

----------------------------------------------------------------------------
(* String literals of formatter.ts.                                        *)

\* &lt;
LT == << "&", "l", "t", ";" >>

\* &gt;
GT == << "&", "g", "t", ";" >>

\* &amp;
AMP == << "&", "a", "m", "p", ";" >>

\* &quot;
QUOT == << "&", "q", "u", "o", "t", ";" >>

\* &#x27;
X27 == << "&", "#", "x", "2", "7", ";" >>

\* &#x2F;
X2F == << "&", "#", "x", "2", "F", ";" >>

\* &#39;
N39 == << "&", "#", "3", "9", ";" >>

\* the grave accent, the backtick of Markdown
Backtick == "grave"

\* http://
HTTP == << "h", "t", "t", "p", ":", "/", "/" >>

\* https://
HTTPS == << "h", "t", "t", "p", "s", ":", "/", "/" >>

----------------------------------------------------------------------------
(* Strings of the text functions of the formatter: sequences of            *)
(* characters.                                                             *)

\* the characters /\s/ matches and trim() removes
Whitespace == { " ", "\n", "\t", "\r" }

LowerCaseLetters ==
    << "a", "b", "c", "d", "e", "f", "g", "h", "i", "j", "k", "l", "m", "n",
       "o", "p", "q", "r", "s", "t", "u", "v", "w", "x", "y", "z" >>

UpperCaseLetters ==
    << "A", "B", "C", "D", "E", "F", "G", "H", "I", "J", "K", "L", "M", "N",
       "O", "P", "Q", "R", "S", "T", "U", "V", "W", "X", "Y", "Z" >>

IsLetter(c) == c \in Range(LowerCaseLetters) \cup Range(UpperCaseLetters)

\* [a-zA-Z0-9]
IsAlnum(c) == IsLetter(c) \/ c \in Digits

\* String.prototype.toLowerCase
toLowerCase(s) ==
    [ i \in 1..Len(s) |->
        IF s[i] \in Range(UpperCaseLetters)
        THEN LowerCaseLetters[CHOOSE k \in 1..Len(UpperCaseLetters) :
                                  UpperCaseLetters[k] = s[i]]
        ELSE s[i] ]

RECURSIVE TrimStart(_)
TrimStart(s) ==
    IF s # << >> /\ Head(s) \in Whitespace THEN TrimStart(Tail(s)) ELSE s

RECURSIVE TrimEnd(_)
TrimEnd(s) ==
    IF s # << >> /\ s[Len(s)] \in Whitespace
    THEN TrimEnd(SubSeq(s, 1, Len(s) - 1))
    ELSE s

\* String.prototype.trim
trim(s) == TrimEnd(TrimStart(s))

\* String.prototype.startsWith
startsWith(s, lit) == HasAt(s, 1, lit)

\* String.prototype.includes
includes(s, lit) == \E i \in 1..Len(s) : HasAt(s, i, lit)

RECURSIVE replaceAll(_, _, _)
\* text.replace(/lit/g, to): every occurrence of lit, leftmost first, none
\* overlapping; the replacement text is not scanned again
replaceAll(s, lit, to) ==
    IF s = << >> THEN << >>
    ELSE IF HasAt(s, 1, lit)
    THEN to \o replaceAll(SubSeq(s, Len(lit) + 1, Len(s)), lit, to)
    ELSE << Head(s) >> \o replaceAll(Tail(s), lit, to)

\* the entities decodeHtmlEntities knows and the character each stands for,
\* in the order of its replace calls
EntityTable ==
    << << LT, << "<" >> >>,
       << GT, << ">" >> >>,
       << AMP, << "&" >> >>,
       << QUOT, << "\"" >> >>,
       << X27, << "'" >> >>,
       << X2F, << "/" >> >>,
       << N39, << "'" >> >> >>

RECURSIVE ReplaceInTurn(_, _, _)
\* the replace calls from position k of the table on, chained
ReplaceInTurn(s, table, k) ==
    IF k > Len(table) THEN s
    ELSE ReplaceInTurn(replaceAll(s, table[k][1], table[k][2]), table, k + 1)

\* decodeHtmlEntities(text)
decodeHtmlEntities(s) == ReplaceInTurn(s, EntityTable, 1)

----------------------------------------------------------------------------
(* The document DOMParser builds for a comment body.  A text node holds    *)
(* its characters with every character reference of the HTML source        *)
(* replaced once by the parser.                                            *)

RECURSIVE ParseEntities(_)
\* the parser's reading of character data: one pass, each reference
\* replaced by its character
ParseEntities(src) ==
    IF src = << >> THEN << >>
    ELSE IF \E k \in 1..Len(EntityTable) : HasAt(src, 1, EntityTable[k][1])
    THEN LET k == CHOOSE j \in 1..Len(EntityTable) :
                      HasAt(src, 1, EntityTable[j][1])
         IN  EntityTable[k][2]
             \o ParseEntities(SubSeq(src, Len(EntityTable[k][1]) + 1, Len(src)))
    ELSE << Head(src) >> \o ParseEntities(Tail(src))

\* a text node for the character data src of the HTML source
TextNode(src) ==
    [ type |-> "text", tag |-> "#text", href |-> << >>,
      data |-> ParseEntities(src), children |-> << >> ]

\* an element; href is its href attribute ('' when it has none)
Element(tag, href, children) ==
    [ type |-> "element", tag |-> tag, href |-> href, data |-> << >>,
      children |-> children ]

\* doc.body
Body(children) == Element("body", << >>, children)

RECURSIVE textContent(_)
RECURSIVE TextOfNodes(_)
\* node.textContent
textContent(node) ==
    IF node.type = "text" THEN node.data ELSE TextOfNodes(node.children)

TextOfNodes(list) ==
    IF list = << >> THEN << >>
    ELSE textContent(Head(list)) \o TextOfNodes(Tail(list))

----------------------------------------------------------------------------
(* domToMarkdown and isSafeUrl.                                            *)

\* isSafeUrl with every href taken as safe
isSafeUrl_any(u) == TRUE

\* isSafeUrl(url)
isSafeUrl(u) ==
    IF u = << >> THEN FALSE
    ELSE LET trimmed == toLowerCase(trim(u))
         IN  \/ startsWith(trimmed, HTTP)
             \/ startsWith(trimmed, HTTPS)
             \/ startsWith(trimmed, << "/" >>)
             \/ startsWith(trimmed, << "#" >>)
             \/ (~includes(trimmed, << ":" >>)
                   /\ ~startsWith(trimmed, << "/", "/" >>))

Fence == << Backtick, Backtick, Backtick >>
LineBreak == << "\n" >>

RECURSIVE domToMarkdown(_)
RECURSIVE ConvertNodes(_, _)
RECURSIVE ConvertNode(_, _)
\* one iteration of node.childNodes.forEach: the Markdown for a child of an
\* element with tag parentTag
ConvertNode(child, parentTag) ==
    IF child.type = "text" THEN child.data
    ELSE CASE child.tag = "p" ->
                  LineBreak \o LineBreak \o domToMarkdown(child)
           [] child.tag = "a" ->
                  IF isSafeUrl(child.href)
                  THEN << "[" >> \o textContent(child) \o << "]", "(" >>
                       \o child.href \o << ")" >>
                  ELSE textContent(child)
           [] child.tag = "pre" ->
                  Fence \o LineBreak \o textContent(child) \o LineBreak \o Fence
           [] child.tag = "code" ->
                  IF parentTag # "pre"
                  THEN << Backtick >> \o textContent(child) \o << Backtick >>
                  ELSE textContent(child)
           [] child.tag \in { "i", "em" } ->
                  << "*" >> \o domToMarkdown(child) \o << "*" >>
           [] child.tag \in { "b", "strong" } ->
                  << "*", "*" >> \o domToMarkdown(child) \o << "*", "*" >>
           [] child.tag = "br" -> LineBreak
           [] OTHER -> domToMarkdown(child)

ConvertNodes(list, parentTag) ==
    IF list = << >> THEN << >>
    ELSE ConvertNode(Head(list), parentTag) \o ConvertNodes(Tail(list), parentTag)

\* domToMarkdown(node)
domToMarkdown(node) == ConvertNodes(node.children, node.tag)

----------------------------------------------------------------------------
(* wrapHtmlTagsInBackticks and processHtmlTags: their regular expressions, *)
(* matched as the backtracking matcher matches them.                       *)

RECURSIVE SkipSpace(_, _)
\* the first position from p on that holds no whitespace
SkipSpace(s, p) ==
    IF p <= Len(s) /\ s[p] \in Whitespace THEN SkipSpace(s, p + 1) ELSE p

RECURSIVE SkipAlnum(_, _)
\* the first position from p on that holds no letter or digit
SkipAlnum(s, p) ==
    IF p <= Len(s) /\ IsAlnum(s[p]) THEN SkipAlnum(s, p + 1) ELSE p

RECURSIVE SkipUnquoted(_, _)
\* the first position from p on that [^'"<>\s] does not match
SkipUnquoted(s, p) ==
    IF p <= Len(s) /\ s[p] \notin ({ "'", "\"", "<", ">" } \cup Whitespace)
    THEN SkipUnquoted(s, p + 1)
    ELSE p

\* the position of the first character c from p on, 0 if there is none
IndexFrom(s, p, c) ==
    IF \E j \in p..Len(s) : s[j] = c
    THEN CHOOSE j \in p..Len(s) : s[j] = c /\ \A m \in p..(j - 1) : s[m] # c
    ELSE 0

\* \s*\/?&gt; from position p: the position of the `;`, 0 without a match
TagFinish(s, p) ==
    LET q == SkipSpace(s, p)
        r == IF q <= Len(s) /\ s[q] = "/" THEN q + 1 ELSE q
    IN  IF HasAt(s, r, GT) THEN r + Len(GT) - 1 ELSE 0

RECURSIVE TagRest(_, _)
RECURSIVE TagAttribute(_, _)
RECURSIVE TagValue(_, _)
RECURSIVE TagUnquoted(_, _, _)
\* (?:\s+name(?:=value)?)*\s*\/?&gt; from position p: one more attribute
\* first, the end of the tag if that leads to no match
TagRest(s, p) ==
    LET attribute == TagAttribute(s, p)
    IN  IF attribute # 0 THEN attribute ELSE TagFinish(s, p)

\* \s+[a-zA-Z][a-zA-Z0-9]*(?:=value)? and the rest of the tag
TagAttribute(s, p) ==
    LET q == SkipSpace(s, p)
    IN  IF q = p \/ q > Len(s) THEN 0
        ELSE IF ~IsLetter(s[q]) THEN 0
        ELSE LET r == SkipAlnum(s, q + 1)
                 valued == IF r <= Len(s) /\ s[r] = "="
                           THEN TagValue(s, r + 1) ELSE 0
             IN  IF valued # 0 THEN valued ELSE TagRest(s, r)

\* "[^"]*"|'[^']*'|[^'"<>\s]+ from position v, and the rest of the tag
TagValue(s, v) ==
    IF v > Len(s) THEN 0
    ELSE IF s[v] \in { "\"", "'" }
    THEN LET c == IndexFrom(s, v + 1, s[v])
         IN  IF c = 0 THEN 0 ELSE TagRest(s, c + 1)
    ELSE TagUnquoted(s, v, SkipUnquoted(s, v))

\* the unquoted value s[v .. t-1], the longest first
TagUnquoted(s, v, t) ==
    IF t <= v THEN 0
    ELSE LET rest == TagRest(s, t)
         IN  IF rest # 0 THEN rest ELSE TagUnquoted(s, v, t - 1)

\* the tag expression of processHtmlTags at position i: the position of the
\* last character of the match, 0 without a match
TagMatch(s, i) ==
    IF ~HasAt(s, i, LT) THEN 0
    ELSE LET a == IF HasAt(s, i + Len(LT), << "/" >>)
                  THEN i + Len(LT) + 1 ELSE i + Len(LT)
         IN  IF a > Len(s) THEN 0
             ELSE IF ~IsLetter(s[a]) THEN 0
             ELSE TagRest(s, SkipAlnum(s, a + 1))

RECURSIVE ReplaceTags(_)
\* processed.replace(/(&lt;...&gt;)/g, '`$1`')
ReplaceTags(s) ==
    IF s = << >> THEN << >>
    ELSE LET e == TagMatch(s, 1)
         IN  IF e # 0
             THEN << Backtick >> \o SubSeq(s, 1, e) \o << Backtick >>
                  \o ReplaceTags(SubSeq(s, e + 1, Len(s)))
             ELSE << Head(s) >> \o ReplaceTags(Tail(s))

\* /`[^`]+`/ at position i: the position of the closing backtick, 0 without
\* a match
SpanMatch(s, i) ==
    IF i + 1 <= Len(s) /\ s[i] = Backtick /\ s[i + 1] # Backtick
    THEN IndexFrom(s, i + 2, Backtick)
    ELSE 0

\* ```(?:.*?)``` at position i: the position of the last backtick of the
\* nearest closing fence on the same line, 0 without a match
FenceMatch(s, i) ==
    LET closes == { j \in (i + Len(Fence))..Len(s) :
                      /\ HasAt(s, j, Fence)
                      /\ \A m \in (i + Len(Fence))..(j - 1) :
                            s[m] \notin { "\n", "\r" } }
    IN  IF HasAt(s, i, Fence) /\ closes # {}
        THEN (CHOOSE j \in closes : \A m \in closes : j <= m) + Len(Fence) - 1
        ELSE 0

\* the leftmost position where the backtick-span expression matches, 0 if
\* there is none
FirstSpan(s) ==
    IF \E i \in 1..Len(s) : SpanMatch(s, i) # 0
    THEN CHOOSE i \in 1..Len(s) :
             SpanMatch(s, i) # 0 /\ \A m \in 1..(i - 1) : SpanMatch(s, m) = 0
    ELSE 0

\* the leftmost position where the code-block expression matches, 0 if
\* there is none
FirstFence(s) ==
    IF \E i \in 1..Len(s) : FenceMatch(s, i) # 0
    THEN CHOOSE i \in 1..Len(s) :
             FenceMatch(s, i) # 0 /\ \A m \in 1..(i - 1) : FenceMatch(s, m) = 0
    ELSE 0

RECURSIVE processHtmlTags(_)
\* processHtmlTags(text): the tags of the parts between backtick spans are
\* wrapped, the spans are put back as they were
processHtmlTags(s) ==
    LET i == FirstSpan(s)
    IN  IF i = 0 THEN ReplaceTags(s)
        ELSE ReplaceTags(SubSeq(s, 1, i - 1))
             \o SubSeq(s, i, SpanMatch(s, i))
             \o processHtmlTags(SubSeq(s, SpanMatch(s, i) + 1, Len(s)))

RECURSIVE ProcessAroundFences(_)
\* the loop of wrapHtmlTagsInBackticks over the parts between code blocks
ProcessAroundFences(s) ==
    LET i == FirstFence(s)
    IN  IF i = 0 THEN processHtmlTags(s)
        ELSE processHtmlTags(SubSeq(s, 1, i - 1))
             \o SubSeq(s, i, FenceMatch(s, i))
             \o ProcessAroundFences(SubSeq(s, FenceMatch(s, i) + 1, Len(s)))

\* wrapHtmlTagsInBackticks(text)
wrapHtmlTagsInBackticks(s) ==
    IF includes(s, Fence) THEN ProcessAroundFences(s) ELSE processHtmlTags(s)

\* formatCommentText(html), html given as the document parsed from it
formatCommentText(body, s) ==
    LET converted == domToMarkdown(body)
        wrapped == IF s.wrapHtmlTags THEN wrapHtmlTagsInBackticks(converted)
                   ELSE converted
    IN  trim(decodeHtmlEntities(wrapped))

----------------------------------------------------------------------------
(* formatCommentText on its own.                                           *)

\* children of a comment body: the paragraph and the code block of a
\* comment, literal tags typed as text, inline code, text escaped twice in
\* the source, a line break, emphasis, plain text
Pieces ==
    { Element("p", << >>, << TextNode(<< "H", "e", "l", "l", "o", " " >>),
                            Element("b", << >>, << TextNode(<< "w", "o", "r", "l", "d" >>) >>) >>),
      Element("pre", << >>,
              << Element("code", << >>, << TextNode(<< "x", "&", "l", "t", ";", "1" >>) >>) >>),
      Element("pre", << >>, << TextNode(<< "&", "a", "m", "p", ";", "l", "t", ";", "b", "&", "a", "m", "p", ";", "g", "t", ";" >>) >>),
      Element("code", << >>, << TextNode(<< "&", "l", "t", ";", "b", "&", "g", "t", ";" >>) >>),
      TextNode(<< "&", "l", "t", ";", "d", "i", "v", "&", "g", "t", ";" >>),
      TextNode(<< "&", "l", "t", ";", "/", "p", "&", "g", "t", ";" >>),
      TextNode(<< "&", "l", "t", ";", "b", "r", "/", "&", "g", "t", ";" >>),
      TextNode(<< "&", "a", "m", "p", ";", "l", "t", ";", "i", "&", "a", "m", "p", ";", "g", "t", ";" >>),
      Element("br", << >>, << >>),
      Element("i", << >>, << TextNode(<< "s", "o" >>) >>),
      TextNode(<< "o", "k", " " >>) }

\* the text of every anchor
LinkText == << "c", "l", "i", "c", "k" >>

\* href attributes of anchors
Hrefs ==
    { << "j", "a", "v", "a", "s", "c", "r", "i", "p", "t", ":", "a", "l", "e", "r", "t", "(", "1", ")" >>,
      << " ", "J", "a", "v", "a", "S", "c", "r", "i", "p", "t", ":", "a", "l", "e", "r", "t", "(", "1", ")" >>,
      << "d", "a", "t", "a", ":", "x" >>,
      << "h", "t", "t", "p", "s", ":", "/", "/", "a", ".", "b" >>,
      << "H", "T", "T", "P", ":", "/", "/", "a", ".", "b" >>,
      << "#", "c" >>,
      << "/", "i", "t", "e", "m" >>,
      << "/", "/", "a", ".", "b" >>,
      << "i", "t", "e", "m", "?", "i", "d", "=", "1" >>,
      << >> }

Anchors == { Element("a", h, << TextNode(LinkText) >>) : h \in Hrefs }

InitText ==
    /\ pc = "text"
    /\ \E len \in 0..MaxNodes : \E children \in [ 1..len -> Pieces \cup Anchors ] :
          html = Body(children)
    /\ \E w \in BOOLEAN : settings = [ DEFAULT_SETTINGS EXCEPT !.wrapHtmlTags = w ]
    /\ url = << >>
    /\ itemId = NoId
    /\ requests = << >>
    /\ stack = << >>
    /\ comments = << >>
    /\ rootComments = << >>
    /\ rootOutcome = "none"
    /\ outcome = [ n \in CommentIds |-> "none" ]
    /\ listed = {}
    /\ reported = 0
    /\ htmlOutcome = "none"
    /\ rows = << >>
    /\ via = "none"
    /\ postInfo = NoPostInfo
    /\ error = "none"
    /\ markdown = NotFormatted
    /\ text = << >>
    /\ formatted = << >>
    /\ DatesIdle
    /\ FetchIdle

\* formatCommentText applied to the body
FormatCommentText ==
    /\ pc = "text"
    /\ formatted' = formatCommentText(html, settings)
    /\ pc' = "textDone"
    /\ UNCHANGED << url, itemId, requests, stack, comments, rootComments,
                    rootOutcome, outcome, listed, reported, htmlOutcome, rows,
                    via, postInfo, error, renderVars, html, text, dateVars,
                    fetchVars >>

NextText == FormatCommentText

SpecText == InitText /\ [][NextText]_vars

----------------------------------------------------------------------------
(* decodeHtmlEntities on its own.                                          *)

\* pieces of text: every entity, every entity without its ampersand, and a
\* plain character
Chunks ==
    { EntityTable[k][1] : k \in 1..Len(EntityTable) }
    \cup { Tail(EntityTable[k][1]) : k \in 1..Len(EntityTable) }
    \cup { << "x" >> }

RECURSIVE Concat(_)
\* the strings of a sequence joined
Concat(parts) ==
    IF parts = << >> THEN << >> ELSE Head(parts) \o Concat(Tail(parts))

InitDecode ==
    /\ pc = "decode"
    /\ \E len \in 0..MaxChunks : \E parts \in [ 1..len -> Chunks ] :
          text = Concat(parts)
    /\ settings = DEFAULT_SETTINGS
    /\ url = << >>
    /\ itemId = NoId
    /\ requests = << >>
    /\ stack = << >>
    /\ comments = << >>
    /\ rootComments = << >>
    /\ rootOutcome = "none"
    /\ outcome = [ n \in CommentIds |-> "none" ]
    /\ listed = {}
    /\ reported = 0
    /\ htmlOutcome = "none"
    /\ rows = << >>
    /\ via = "none"
    /\ postInfo = NoPostInfo
    /\ error = "none"
    /\ markdown = NotFormatted
    /\ html = << >>
    /\ formatted = << >>
    /\ DatesIdle
    /\ FetchIdle

\* decodeHtmlEntities applied to the text
DecodeHtmlEntities ==
    /\ pc = "decode"
    /\ formatted' = decodeHtmlEntities(text)
    /\ pc' = "decoded"
    /\ UNCHANGED << url, itemId, requests, stack, comments, rootComments,
                    rootOutcome, outcome, listed, reported, htmlOutcome, rows,
                    via, postInfo, error, renderVars, html, text, dateVars,
                    fetchVars >>

NextDecode == DecodeHtmlEntities

SpecDecode == InitDecode /\ [][NextDecode]_vars

----------------------------------------------------------------------------
(* The frontmatter and the title heading of formatComments, character by   *)
(* character, for a PostInfo without an original URL.                      *)

\* escapeFrontmatterString with the quotes escaped before the backslashes
escapeFrontmatterString_quotesFirst(s) ==
    replaceAll(replaceAll(replaceAll(replaceAll(replaceAll(s,
        << "\"" >>, << "\\", "\"" >>),
        << "\\" >>, << "\\", "\\" >>),
        << "\n" >>, << "\\", "n" >>),
        << "\r" >>, << "\\", "r" >>),
        << "\t" >>, << "\\", "t" >>)

\* escapeFrontmatterString(text): the five replace calls, in their order
escapeFrontmatterString(s) ==
    replaceAll(replaceAll(replaceAll(replaceAll(replaceAll(s,
        << "\\" >>, << "\\", "\\" >>),
        << "\"" >>, << "\\", "\"" >>),
        << "\n" >>, << "\\", "n" >>),
        << "\r" >>, << "\\", "r" >>),
        << "\t" >>, << "\\", "t" >>)

\* `---\n`
RuleText == << "-", "-", "-", "\n" >>

\* the source, post-id, date and comment-count lines of a post
FieldsText ==
    << "s", "o", "u", "r", "c", "e", ":", " ", "u", "\n" >>
    \o << "p", "o", "s", "t", "-", "i", "d", ":", " ", "1", "\n" >>
    \o << "d", "a", "t", "e", ":", " ", "d", "\n" >>
    \o << "c", "o", "m", "m", "e", "n", "t", "-", "c", "o", "u", "n", "t", ":", " ", "1", "\n" >>

\* `title: "`
TitleKey == << "t", "i", "t", "l", "e", ":", " ", "\"" >>

\* `# Hacker News Comments`
FallbackHeading == << "#", " ", "H", "a", "c", "k", "e", "r", " ", "N", "e", "w", "s", " ", "C", "o", "m", "m", "e", "n", "t", "s" >>

\* formatComments up to the title heading: the frontmatter, with the title
\* line `if (title)`, an empty line and the heading
formatHeader(title) ==
    RuleText
    \o FieldsText
    \o (IF title # << >>
        THEN TitleKey \o escapeFrontmatterString(title) \o << "\"", "\n" >>
        ELSE << >>)
    \o RuleText \o << "\n" >>
    \o (IF title # << >> THEN << "#", " " >> \o title ELSE FallbackHeading)
    \o << "\n", "\n" >>

\* parts titles are put together from
TitleParts ==
    { << "a" >>, << "\\" >>, << "\"" >>, << "\n" >>, << "\r" >>, << "\t" >>,
      << "-", "-", "-" >>, << "\\", "n" >> }

InitTitle ==
    /\ pc = "title"
    /\ \E len \in 0..MaxTitleParts : \E parts \in [ 1..len -> TitleParts ] :
          text = Concat(parts)
    /\ settings = DEFAULT_SETTINGS
    /\ html = << >>
    /\ url = << >>
    /\ itemId = NoId
    /\ requests = << >>
    /\ stack = << >>
    /\ comments = << >>
    /\ rootComments = << >>
    /\ rootOutcome = "none"
    /\ outcome = [ n \in CommentIds |-> "none" ]
    /\ listed = {}
    /\ reported = 0
    /\ htmlOutcome = "none"
    /\ rows = << >>
    /\ via = "none"
    /\ postInfo = NoPostInfo
    /\ error = "none"
    /\ markdown = NotFormatted
    /\ formatted = << >>
    /\ DatesIdle
    /\ FetchIdle

\* formatComments writes the frontmatter and the heading for the title
FormatHeader ==
    /\ pc = "title"
    /\ formatted' = formatHeader(text)
    /\ pc' = "titled"
    /\ UNCHANGED << url, itemId, requests, stack, comments, rootComments,
                    rootOutcome, outcome, listed, reported, htmlOutcome, rows,
                    via, postInfo, error, renderVars, html, text, dateVars,
                    fetchVars >>

NextTitle == FormatHeader

SpecTitle == InitTitle /\ [][NextTitle]_vars

----------------------------------------------------------------------------
(* The entry points of the plugin (src/src/main.ts): the callback the      *)
(* ribbon icon and the command give to the URL modal.  Every call of the   *)
(* callback is a record of `fetches`; scrapeComments is taken by its       *)
(* outcome, and createNote by one action per await.                        *)

Entries == { "ribbon", "command" }

\* the URLs the callback is called with: an item URL, and a URL of the
\* site that is not an item URL
FetchUrls ==
    { << "http", "s", "://", HNHost, "/", "item?id=", "1" >>,
      << "http", "s", "://", HNHost, "/", "user?id=", "1" >> }

\* no file name
NoPath == [ base |-> NoId, copy |-> 0 ]

\* the path `${base}.md` (copy = 0) or `${base} (${copy}).md`
Path(base, copy) == [ base |-> base, copy |-> copy ]

\* the callback up to its first await: the persistent notice is created and
\* scrapeComments is called
NewFetch(entry, u) ==
    [ entry |-> entry, url |-> u, pc |-> "scrape", notice |-> "shown",
      scraped |-> "none", formatted |-> FALSE, fileName |-> NoPath,
      finalFileName |-> NoPath, counter |-> 0, answer |-> FALSE,
      created |-> NoPath, collided |-> FALSE, failed |-> "none" ]

\* scrapeComments threw the error, after messageEl.hide() or without it
Thrown(err, hides) ==
    [ kind |-> "thrown", error |-> err, hides |-> hides, nonEmpty |-> FALSE,
      originalUrl |-> "none" ]

\* scrapeComments returned a PostInfo: with comments or without, and with
\* no original URL, an absolute one, or a relative href of the title line
ReturnedInfo(nonEmpty, originalUrl) ==
    [ kind |-> "returned", error |-> "none", hides |-> FALSE,
      nonEmpty |-> nonEmpty, originalUrl |-> originalUrl ]

\* the ways scrapeComments(url, loadingNotice) ends
ScrapeOutcomes(u) ==
    IF ~isValidHNUrl(u) THEN { Thrown("InvalidUrl", TRUE) }
    ELSE IF ExtractItemId(u) = NoId THEN { Thrown("NoItemId", FALSE) }
    ELSE { Thrown("FetchFailed", TRUE) }
         \cup { ReturnedInfo(TRUE, o) : o \in { "none", "absolute", "relative" } }
         \cup { ReturnedInfo(FALSE, "none") }

\* how scrapeComments ended: its error, or whether the PostInfo it returned
\* has top-level comments
ScrapedAs(o) ==
    IF o.kind = "thrown" THEN o.error
    ELSE IF o.nonEmpty THEN "comments" ELSE "empty"

\* the check of the callback with every PostInfo held to have comments
NoComments_never(o) == FALSE

\* `!postInfo.comments || postInfo.comments.length === 0`
NoComments(o) == ~o.nonEmpty

\* generateFileName throws: `new URL(postInfo.originalUrl)` on a URL that
\* is not absolute
FileNameThrows(o) == o.originalUrl = "relative"

\* generateFileName(url, postInfo): the name made from the title of the
\* post and the date, the same for two fetches of a post on one day
generateFileName(u) == Path(ExtractItemId(u), 0)

\* the callback called with the URL: onSubmit(url)
StartFetch(entry, u) == fetches' = Append(fetches, NewFetch(entry, u))

InitFetch ==
    /\ pc = "fetch"
    /\ url = << >>
    /\ itemId = NoId
    /\ requests = << >>
    /\ stack = << >>
    /\ comments = << >>
    /\ rootComments = << >>
    /\ rootOutcome = "none"
    /\ outcome = [ n \in CommentIds |-> "none" ]
    /\ listed = {}
    /\ reported = 0
    /\ htmlOutcome = "none"
    /\ rows = << >>
    /\ via = "none"
    /\ postInfo = NoPostInfo
    /\ error = "none"
    /\ settings = DEFAULT_SETTINGS
    /\ markdown = NotFormatted
    /\ html = << >>
    /\ text = << >>
    /\ formatted = << >>
    /\ DatesIdle
    /\ modal = NoModal
    /\ fetches = << >>
    /\ \E n \in 0..MaxExisting :
          vault = { Path(<< "1" >>, k) : k \in 0..(n - 1) }

\* what no action of the entry points changes
ScraperUnchanged ==
    UNCHANGED << pc, url, itemId, requests, stack, comments, rootComments,
                 rootOutcome, outcome, listed, reported, htmlOutcome, rows,
                 via, postInfo, error, renderVars, textVars, dateVars >>

\* the modal calls the callback of the entry point with a URL
Submit(entry, u) ==
    /\ Len(fetches) < MaxFetches
    /\ StartFetch(entry, u)
    /\ UNCHANGED << modal, vault >>
    /\ ScraperUnchanged

\* the callback after `await scraper.scrapeComments(url, loadingNotice)`,
\* up to its next await or its end
ScrapeDone(i, o) ==
    /\ i \in 1..Len(fetches)
    /\ fetches[i].pc = "scrape"
    /\ o \in ScrapeOutcomes(fetches[i].url)
    /\ LET f == [ fetches[i] EXCEPT !.scraped = ScrapedAs(o) ]
           name == generateFileName(f.url)
       IN  fetches' = [ fetches EXCEPT ![i] =
             IF o.kind = "thrown"
             THEN [ f EXCEPT !.pc = "done", !.failed = o.error,
                             !.notice = IF o.hides THEN "hidden" ELSE @ ]
             ELSE IF NoComments(o)
             THEN [ f EXCEPT !.pc = "done", !.notice = "hidden" ]
             ELSE IF FileNameThrows(o)
             THEN [ f EXCEPT !.pc = "done", !.formatted = TRUE,
                             !.failed = "FileName" ]
             ELSE [ f EXCEPT !.pc = "exists", !.formatted = TRUE,
                             !.fileName = name, !.finalFileName = name,
                             !.counter = 1 ] ]
    /\ UNCHANGED << modal, vault >>
    /\ ScraperUnchanged

\* the file system answers adapter.exists(finalFileName)
ExistsProbe(i) ==
    /\ i \in 1..Len(fetches)
    /\ fetches[i].pc = "exists"
    /\ fetches' = [ fetches EXCEPT ![i].pc = "probed",
                                   ![i].answer = fetches[i].finalFileName \in vault ]
    /\ UNCHANGED << modal, vault >>
    /\ ScraperUnchanged

\* createNote goes on with the answer: the next name of the loop and a new
\* adapter.exists call, or vault.create(finalFileName, content), which
\* rejects for a path that exists
ExistsResume(i) ==
    /\ i \in 1..Len(fetches)
    /\ fetches[i].pc = "probed"
    /\ LET f == fetches[i]
       IN  IF f.answer
           THEN /\ fetches' = [ fetches EXCEPT ![i] =
                      [ f EXCEPT !.pc = "exists",
                                 !.finalFileName = Path(f.fileName.base, f.counter),
                                 !.counter = f.counter + 1 ] ]
                /\ UNCHANGED vault
           ELSE IF f.finalFileName \in vault
           THEN /\ fetches' = [ fetches EXCEPT ![i] =
                      [ f EXCEPT !.pc = "done", !.collided = TRUE,
                                 !.failed = "FileExists" ] ]
                /\ UNCHANGED vault
           ELSE /\ fetches' = [ fetches EXCEPT ![i] =
                      [ f EXCEPT !.pc = "create", !.created = f.finalFileName ] ]
                /\ vault' = vault \cup { f.finalFileName }
    /\ UNCHANGED modal
    /\ ScraperUnchanged

\* the callback after `await this.createNote(fileName, formattedContent)`:
\* loadingNotice.hide() and the notice of success
CreateDone(i) ==
    /\ i \in 1..Len(fetches)
    /\ fetches[i].pc = "create"
    /\ fetches' = [ fetches EXCEPT ![i].pc = "done", ![i].notice = "hidden" ]
    /\ UNCHANGED << modal, vault >>
    /\ ScraperUnchanged

\* a step of a callback that was called
FetchStep ==
    \/ \E i \in 1..MaxFetches :
          \E o \in UNION { ScrapeOutcomes(u) : u \in FetchUrls } : ScrapeDone(i, o)
    \/ \E i \in 1..MaxFetches : ExistsProbe(i)
    \/ \E i \in 1..MaxFetches : ExistsResume(i)
    \/ \E i \in 1..MaxFetches : CreateDone(i)

NextFetch ==
    \/ \E entry \in Entries : \E u \in FetchUrls : Submit(entry, u)
    \/ FetchStep

SpecFetch == InitFetch /\ [][NextFetch]_vars

\* every request and every call of the file system is answered, so a
\* callback that can go on does
SpecFetchFair == SpecFetch /\ WF_vars(FetchStep)

----------------------------------------------------------------------------
(* The URL modal (HNURLModal) the entry points open.                       *)

\* what the user may type into the input field
ModalUrls ==
    FetchUrls
    \cup { << "http", "s", "://", "example.com", "/", "item?id=", "1" >>,
           << " " >>,
           << >> }

\* validateURL(url)
validateURL(u) ==
    /\ trim(u) # << >>
    /\ \/ startsWith(u, << "http", "s", "://", HNHost, "/" >>)
       \/ startsWith(u, << "http", "://", HNHost, "/" >>)

\* this.close(): the modal leaves the screen, its fields stay as they are
Closed(m) == [ m EXCEPT !.open = FALSE ]

\* the ribbon icon is clicked or the command is run: new HNURLModal(...).open()
OpenModal(entry) ==
    /\ ~modal.open
    /\ Len(fetches) < MaxFetches
    /\ modal' = [ open |-> TRUE, entry |-> entry, url |-> << >> ]
    /\ UNCHANGED << fetches, vault >>
    /\ ScraperUnchanged

\* the `input` listener: this.url = value
Input(u) ==
    /\ modal.open
    /\ modal' = [ modal EXCEPT !.url = u ]
    /\ UNCHANGED << fetches, vault >>
    /\ ScraperUnchanged

\* the `click` listener of the `Fetch Comments` button
ClickFetch ==
    /\ modal.open
    /\ IF ~validateURL(modal.url)
       THEN UNCHANGED << modal, fetches >>
       ELSE /\ modal' = Closed(modal)
            /\ StartFetch(modal.entry, modal.url)
    /\ UNCHANGED vault
    /\ ScraperUnchanged

\* the `keydown` listener for Enter without Shift: onOK()
PressEnter ==
    /\ modal.open
    /\ StartFetch(modal.entry, modal.url)
    /\ modal' = Closed(modal)
    /\ UNCHANGED vault
    /\ ScraperUnchanged

\* the `click` listener of the `Cancel` button
Cancel ==
    /\ modal.open
    /\ modal' = Closed(modal)
    /\ UNCHANGED << fetches, vault >>
    /\ ScraperUnchanged

NextModal ==
    \/ \E entry \in Entries : OpenModal(entry)
    \/ \E u \in ModalUrls : Input(u)
    \/ ClickFetch
    \/ PressEnter
    \/ Cancel

SpecModal == InitFetch /\ [][NextModal]_vars

----------------------------------------------------------------------------
(* Vocabulary of the properties.                                           *)

\* heap keys one step below the keys of S
ChildrenOf(cs, S) == UNION { Range(cs[k].children) : k \in S }

RECURSIVE Closure(_, _)
Closure(cs, S) ==
    IF ChildrenOf(cs, S) \subseteq S THEN S
    ELSE Closure(cs, S \cup ChildrenOf(cs, S))

\* the nodes reachable from an array of comments through children
Reachable(cs, list) == Closure(cs, Range(list))

\* the nodes of the returned forest
ForestNodes == Reachable(comments, postInfo.comments)

\* number of positions of seq that hold x
Occurrences(seq, x) == Cardinality({ i \in 1..Len(seq) : seq[i] = x })

Returned == pc = "returned"

----------------------------------------------------------------------------
(* C1: in every returned forest, whichever strategy produced it, every     *)
(* top-level comment has level 0 and every child's level is its parent's   *)
(* level + 1.                                                              *)
C1_LevelsFollowNesting ==
    Returned =>
        /\ \A k \in Range(postInfo.comments) : comments[k].level = 0
        /\ \A k \in ForestNodes : \A c \in Range(comments[k].children) :
               comments[c].level = comments[k].level + 1

(* C2: the commentCount of every returned PostInfo is the number of nodes  *)
(* reachable from its comments through children, whatever count the source *)
(* reported.                                                               *)
C2_CountIsForestSize ==
    Returned => postInfo.commentCount = Cardinality(ForestNodes)

\* a partial API tree with nested comments is returned and its count
\* differs from the count the root record reported
C2_Witness ==
    /\ Returned
    /\ via = "api"
    /\ \E n \in CommentIds : outcome[n] = "failed"
    /\ Cardinality(ForestNodes) > Len(postInfo.comments)
    /\ postInfo.commentCount = Cardinality(ForestNodes)
    /\ postInfo.commentCount # reported

----------------------------------------------------------------------------
(* Vocabulary of the flat-list properties.  A comment row is a row that    *)
(* carries an identifier.                                                  *)

Parsed == pc = "parsed"

CommentRows == { r \in 1..Len(rows) : rows[r].id # NoId }

LevelOfRow(r) == rows[r].width \div IndentUnit

\* the heap keys of the nodes built from row r
KeysOfRow(r) == { k \in 1..Len(comments) : comments[k].id = rows[r].id }

\* the comment row a node was built from
RowOfKey(k) == CHOOSE r \in CommentRows : rows[r].id = comments[k].id

\* the earlier comment rows with a strictly smaller level
Shallower(r) == { j \in CommentRows : j < r /\ LevelOfRow(j) < LevelOfRow(r) }

\* the nearest of them
Nearest(r) == CHOOSE j \in Shallower(r) : \A m \in Shallower(r) : m <= j

\* the ids of an array of comments
IdsOf(list) == [ i \in 1..Len(list) |-> comments[list[i]].id ]

\* the ids of the children of the node with the given id
ChildIdsOf(id) ==
    IdsOf(comments[CHOOSE k \in 1..Len(comments) : comments[k].id = id].children)

\* the rows of the example: levels 0,1,1,2,0,1, every row with an id
ExampleLevels == << 0, 1, 1, 2, 0, 1 >>

IsExamplePage ==
    /\ Len(rows) = Len(ExampleLevels)
    /\ \A r \in 1..Len(rows) :
           rows[r].id = RowIdent(r) /\ LevelOfRow(r) = ExampleLevels[r]

ExampleForest ==
    /\ IdsOf(rootComments) = << RowIdent(1), RowIdent(5) >>
    /\ ChildIdsOf(RowIdent(1)) = << RowIdent(2), RowIdent(3) >>
    /\ ChildIdsOf(RowIdent(2)) = << >>
    /\ ChildIdsOf(RowIdent(3)) = << RowIdent(4) >>
    /\ ChildIdsOf(RowIdent(4)) = << >>
    /\ ChildIdsOf(RowIdent(5)) = << RowIdent(6) >>
    /\ ChildIdsOf(RowIdent(6)) = << >>

\* number of places (root array or a children array) that hold key k
Places(k) ==
    Occurrences(rootComments, k)
    + Cardinality({ pi \in (1..Len(comments)) \X (1..Len(comments)) :
                      /\ pi[2] <= Len(comments[pi[1]].children)
                      /\ comments[pi[1]].children[pi[2]] = k })

(* C3: in flat-list reconstruction a level-0 row is a root, and a row at   *)
(* level L > 0 with an earlier row of smaller level is a child of the      *)
(* nearest such row, appended after the children that row already has; the *)
(* levels 0,1,1,2,0,1 give two roots, the first with two children of which *)
(* the second has one child, the second root with one child.               *)
C3_NearestShallowerParent ==
    Parsed =>
        /\ \A r \in CommentRows : \E k \in KeysOfRow(r) :
              /\ LevelOfRow(r) = 0 => k \in Range(rootComments)
              /\ (LevelOfRow(r) > 0 /\ Shallower(r) # {}) =>
                    \E p \in KeysOfRow(Nearest(r)) :
                        k \in Range(comments[p].children)
        /\ \A p \in 1..Len(comments) :
              \A i, j \in 1..Len(comments[p].children) :
                  i < j => RowOfKey(comments[p].children[i])
                               < RowOfKey(comments[p].children[j])
        /\ IsExamplePage => ExampleForest

\* the example page was parsed
C3_Witness == Parsed /\ IsExamplePage /\ ExampleForest

(* C4: flat-list reconstruction discards no row: a row with level > 0 and  *)
(* no earlier row of smaller level is a top-level root, and every row that *)
(* carries an identifier is exactly one node of the forest, held by        *)
(* exactly one array (the roots or one node's children).                   *)
C4_NoRowDiscarded ==
    Parsed =>
        \A r \in CommentRows :
            /\ Cardinality(KeysOfRow(r)) = 1
            /\ \A k \in KeysOfRow(r) :
                  /\ Places(k) = 1
                  /\ k \in Reachable(comments, rootComments)
                  /\ (LevelOfRow(r) > 0 /\ Shallower(r) = {}) =>
                        k \in Range(rootComments)

\* a page with a row lacking an id and an indented row without a shallower
\* predecessor, which ended up among the roots
C4_Witness ==
    /\ Parsed
    /\ \E r \in 1..Len(rows) : rows[r].id = NoId
    /\ \E r \in CommentRows :
          /\ r > 1
          /\ LevelOfRow(r) > 0
          /\ Shallower(r) = {}
          /\ KeysOfRow(r) \subseteq Range(rootComments)
          /\ KeysOfRow(r) # {}

----------------------------------------------------------------------------
(* Vocabulary of the properties of scrapeComments.                         *)

IsHtml(req) == req[1] = "html"
IsApi(req) == req[1] \in { "post", "comment" }

\* comment n was requested
Requested(n) ==
    \E i \in 1..Len(requests) : requests[i][1] = "comment" /\ requests[i][2] = n

HtmlRequested == \E i \in 1..Len(requests) : IsHtml(requests[i])

\* the structured strategy threw
ApiThrew == rootOutcome \in { "rejected", "status", "null" }

\* the structured strategy returned zero top-level comments
ApiEmpty ==
    \/ rootOutcome = "nokids"
    \/ /\ rootOutcome = "kids"
       /\ \A n \in Range(KidsOf(PostRecord)) : outcome[n] \in { "failed", "removed" }

\* the traversal of the structured strategy is over
TraversalOver == rootOutcome = "kids" /\ pc # "awaitComment"

\* the structured strategy returned at least one top-level comment
ApiNonEmpty ==
    /\ TraversalOver
    /\ \E n \in Range(KidsOf(PostRecord)) : outcome[n] = "ok"

RECURSIVE Ancestors(_)
\* the comments above comment n in the source
Ancestors(n) ==
    IF SourceParent(n) = PostRecord THEN {}
    ELSE { SourceParent(n) } \cup Ancestors(SourceParent(n))

\* the comments whose own fetch and whose ancestors' fetches all produced a
\* comment that is not removed
Fetched == { n \in CommentIds :
               outcome[n] = "ok" /\ \A a \in Ancestors(n) : outcome[a] = "ok" }

\* the ids of the nodes of the returned forest
ForestIds == { comments[k].id : k \in ForestNodes }

(* C5: the HTML page is requested only after the API strategy has thrown   *)
(* or returned zero top-level comments, and it is the last request; when   *)
(* the API strategy returns a top-level comment the page is never          *)
(* requested and the API forest is returned; when the page fetch fails an  *)
(* error is thrown to the caller.                                          *)
C5_StrategyOrder ==
    /\ \A i \in 1..Len(requests) :
          IsHtml(requests[i]) =>
              /\ ApiThrew \/ ApiEmpty
              /\ i = Len(requests)
              /\ \A j \in 1..(i - 1) : IsApi(requests[j])
    /\ Len(requests) > 0 => requests[1][1] = "post"
    /\ ApiNonEmpty =>
          /\ ~HtmlRequested
          /\ Returned
          /\ via = "api"
          /\ postInfo.comments = rootComments
          /\ ForestIds = { ApiCommentId(n) : n \in Fetched }
    /\ htmlOutcome = "rejected" =>
          /\ pc = "thrown"
          /\ error = "FetchFailed"
          /\ postInfo = NoPostInfo

\* the traversal ran and left no top-level comment, the page was requested
\* after it and its fetch failed
C5_Witness ==
    /\ rootOutcome = "kids"
    /\ Len(requests) > 3
    /\ IsHtml(requests[Len(requests)])
    /\ htmlOutcome = "rejected"
    /\ pc = "thrown"

(* C6: a failure of the structured root fetch (the request throws, the     *)
(* status is not 200, the record is null) is not fatal: the HTML page is   *)
(* requested, and the flat-list result is returned if that fetch succeeds. *)
C6_RootFailureFallsBack ==
    ApiThrew =>
        /\ HtmlRequested
        /\ pc \in { "awaitHtml", "returned", "thrown" }
        /\ htmlOutcome = "ok" =>
              /\ Returned
              /\ via = "html"
              /\ error = "none"
              /\ ForestIds = { rows[r].id : r \in CommentRows }
        /\ pc = "thrown" => htmlOutcome = "rejected"

\* the root request answered with a non-200 status and the page's comments
\* were returned
C6_Witness ==
    /\ rootOutcome = "status"
    /\ Returned
    /\ via = "html"
    /\ Len(postInfo.comments) > 1

(* C7 (as claimed): a transport-level failure of the structured root fetch *)
(* is fatal: scrapeComments ends with an error and returns no PostInfo.    *)
C7_RootRejectionIsFatal ==
    (rootOutcome = "rejected" /\ pc \in { "returned", "thrown" }) =>
        /\ pc = "thrown"
        /\ postInfo = NoPostInfo

(* C7 (amended): after a transport-level failure of the structured root    *)
(* fetch, scrapeComments ends with an error and no PostInfo exactly when   *)
(* the HTML page fetch fails too; when the page fetch succeeds the         *)
(* flat-list result is returned.                                           *)
C7_FatalOnlyWithPageFailure ==
    rootOutcome = "rejected" =>
        /\ pc = "thrown" <=> htmlOutcome = "rejected"
        /\ pc = "thrown" => (error = "FetchFailed" /\ postInfo = NoPostInfo)
        /\ Returned <=> htmlOutcome = "ok"
        /\ Returned => via = "html"

\* both the root request and the page request were rejected
C7_Witness ==
    /\ rootOutcome = "rejected"
    /\ htmlOutcome = "rejected"
    /\ pc = "thrown"
    /\ Len(requests) = 2

(* C8: when the root record has zero kids the HTML page is requested and a *)
(* non-empty forest is returned if the page has comment rows; when both    *)
(* strategies yield zero comments scrapeComments returns, without          *)
(* throwing, a PostInfo with no comments and commentCount 0.               *)
C8_ZeroKidsFallsThrough ==
    /\ rootOutcome = "nokids" =>
          /\ HtmlRequested
          /\ (htmlOutcome = "ok" /\ CommentRows # {}) =>
                /\ Returned
                /\ via = "html"
                /\ Len(postInfo.comments) > 0
    /\ (ApiEmpty /\ htmlOutcome = "ok" /\ CommentRows = {}) =>
          /\ Returned
          /\ error = "none"
          /\ postInfo.comments = << >>
          /\ postInfo.commentCount = 0

\* zero kids and a page without comment rows: the empty PostInfo is returned
C8_Witness ==
    /\ rootOutcome = "nokids"
    /\ htmlOutcome = "ok"
    /\ CommentRows = {}
    /\ Returned
    /\ postInfo.comments = << >>
    /\ postInfo.commentCount = 0

\* the canonical item URL: http or https, the host, /item?id= and digits
CanonicalUrl(u) ==
    \E scheme \in { << "http" >>, << "http", "s" >> } :
        \E n \in 1..Len(u) :
            /\ u = scheme \o << "://", HNHost, "/", "item?id=" >>
                     \o SubSeq(u, Len(u) - n + 1, Len(u))
            /\ \A i \in (Len(u) - n + 1)..Len(u) : u[i] \in Digits

\* the URL starts with a canonical item URL
BeginsCanonical(u) == \E n \in 1..Len(u) : CanonicalUrl(SubSeq(u, 1, n))

Called == pc # "idle"

RejectedAtOnce == pc = "thrown" /\ error = "InvalidUrl" /\ requests = << >>

(* C9 (as claimed): for every URL that is not a canonical item URL         *)
(* scrapeComments fails with the invalid-URL error before any request.     *)
C9_NonCanonicalRejected ==
    (Called /\ ~CanonicalUrl(url)) => RejectedAtOnce

(* C9 (amended): for every URL that does not begin with a canonical item   *)
(* URL scrapeComments fails with the invalid-URL error before any request; *)
(* text after the digits is accepted.                                      *)
C9_NonPrefixRejected ==
    (Called /\ ~BeginsCanonical(url)) => RejectedAtOnce

\* a URL with the right path and digits but another scheme was rejected
C9_Witness ==
    /\ RejectedAtOnce
    /\ url # << >>
    /\ ~BeginsCanonical(url)
    /\ ExtractItemId(url) # NoId

(* C10: in the structured strategy failed child fetches never make the     *)
(* traversal throw or stop early: every kid listed by a record that was    *)
(* read is requested, and the returned forest holds exactly the comments   *)
(* that are not removed and whose own and ancestors' fetches succeeded.    *)
C10_FailuresAreIsolated ==
    /\ (rootOutcome = "kids" /\ htmlOutcome = "none") => pc # "thrown"
    /\ TraversalOver =>
          /\ \A n \in listed :
                /\ outcome[n] # "none"
                /\ Requested(n)
          /\ via = "api" => ForestIds = { ApiCommentId(n) : n \in Fetched }
          /\ via # "api" => Fetched = {}

\* a failed comment whose later sibling was fetched, and below that sibling
\* a failed comment whose later sibling was fetched too
C10_Witness ==
    /\ TraversalOver
    /\ via = "api"
    /\ \E n, m \in CommentIds :
          /\ SourceParent(n) = SourceParent(m)
          /\ n < m
          /\ outcome[n] = "failed"
          /\ outcome[m] = "ok"
          /\ \E c, d \in Range(KidsOf(m)) :
                c < d /\ outcome[c] = "failed" /\ outcome[d] = "ok"

----------------------------------------------------------------------------
(* Removed comments.                                                       *)

\* the comment rows of the fetched page that show a removed comment
RemovedRows == { r \in CommentRows : rows[r].removed }

(* C11: no node of a forest returned by scrapeComments corresponds to a    *)
(* source comment that is removed (deleted or dead), whichever strategy    *)
(* produced the forest.                                                    *)
C11_RemovedExcluded ==
    Returned =>
        /\ via = "api" =>
              \A n \in CommentIds :
                  outcome[n] = "removed" => ApiCommentId(n) \notin ForestIds
        /\ via = "html" =>
              \A r \in RemovedRows : rows[r].id \notin ForestIds

----------------------------------------------------------------------------
(* Order and number of the requests of the structured strategy.            *)

RECURSIVE IsSubsequence(_, _)
\* a is b with some elements left out
IsSubsequence(a, b) ==
    IF a = << >> THEN TRUE
    ELSE IF b = << >> THEN FALSE
    ELSE IF Head(a) = Head(b) THEN IsSubsequence(Tail(a), Tail(b))
    ELSE IsSubsequence(a, Tail(b))

\* the source record an API node was built from
RecordOf(k) == comments[k].id[2]

\* the source records of an array of API nodes, in array order
RecordsOf(list) == [ i \in 1..Len(list) |-> RecordOf(list[i]) ]

\* the heap holds nodes of the structured strategy only
ApiHeap == via # "html"

(* C12: at every moment of the structured strategy the children of every   *)
(* node, and the top-level list, are in the order of the kids list of the  *)
(* source record: their records form a subsequence of that kids list,      *)
(* whatever was skipped.                                                   *)
C12_ReplyOrderPreserved ==
    ApiHeap =>
        /\ IsSubsequence(RecordsOf(rootComments), KidsOf(PostRecord))
        /\ \A k \in 1..Len(comments) :
              IsSubsequence(RecordsOf(comments[k].children),
                            KidsOf(RecordOf(k)))

\* a returned API forest with two top-level comments, the first of them
\* with both of its kids, the second with its second kid only
C12_Witness ==
    /\ Returned
    /\ via = "api"
    /\ Len(postInfo.comments) = 2
    /\ \E k \in Range(postInfo.comments) : Len(comments[k].children) = 2
    /\ \E k \in Range(postInfo.comments) :
          /\ Len(comments[k].children) = 1
          /\ RecordsOf(comments[k].children) = << KidsOf(RecordOf(k))[2] >>

\* how many times comment n was requested
RequestCount(n) ==
    Cardinality({ i \in 1..Len(requests) :
                    requests[i][1] = "comment" /\ requests[i][2] = n })

(* C13: within one acquisition each comment of the source tree is          *)
(* requested at most once; a failed fetch is not retried.                  *)
C13_RequestedAtMostOnce ==
    \A n \in CommentIds : RequestCount(n) <= 1

\* the traversal is over after a top-level fetch and a nested fetch failed,
\* each followed by the request for the next sibling
C13_Witness ==
    /\ TraversalOver
    /\ \E n \in CommentIds :
          /\ SourceParent(n) = PostRecord
          /\ outcome[n] = "failed"
          /\ RequestCount(n) = 1
          /\ RequestCount(n + 1) = 1
    /\ \E n \in CommentIds :
          /\ SourceParent(n) # PostRecord
          /\ outcome[n] = "failed"
          /\ RequestCount(n) = 1
          /\ n + 1 \in CommentIds /\ SourceParent(n + 1) = SourceParent(n)
          /\ RequestCount(n + 1) = 1

----------------------------------------------------------------------------
(* Vocabulary of the properties of formatComments.                         *)

\* formatComments has returned
Formatted == markdown # NotFormatted

\* a step of the caller after scrapeComments returned: a call of
\* formatComments
FormatStep == pc = "returned" /\ pc' = "returned"

RECURSIVE PreOrder(_, _)
\* the nodes below an array of comments, every node before its children and
\* every subtree before the next sibling
PreOrder(cs, list) ==
    IF list = << >> THEN << >>
    ELSE << Head(list) >> \o PreOrder(cs, cs[Head(list)].children)
         \o PreOrder(cs, Tail(list))

\* the summary lines of the document, in document order
SummaryLines == SelectSeq(markdown, LAMBDA l : l.kind = "summary")

\* the positions of the document after the `## Comments` heading
CommentSection ==
    { i \in 1..Len(markdown) : \E h \in 1..(i - 1) : markdown[h].kind = "##" }

\* the positions of the rules between comments
Separators == { i \in CommentSection : markdown[i].kind = "---" }

\* the position of the summary line of node k
SummaryAt(k) ==
    CHOOSE i \in 1..Len(markdown) :
        markdown[i].kind = "summary" /\ markdown[i].of = comments[k].id

\* the ids of the nodes strictly below node k
DescendantIds(k) ==
    { comments[d].id : d \in Reachable(comments, comments[k].children) }

C15_SummaryLinesFollowLevels ==
    Formatted =>
        LET order == PreOrder(comments, postInfo.comments)
        IN  /\ Len(SummaryLines) = Len(order)
            /\ \A i \in 1..Len(order) :
                  /\ SummaryLines[i].of = comments[order[i]].id
                  /\ SummaryLines[i].indent = 2 * comments[order[i]].level

(* C16: a document for n top-level comments has exactly n - 1 rules in its *)
(* comment section: one right before the summary line of every top-level   *)
(* comment but the first, after the whole subtree of the top-level comment *)
(* before it, and none anywhere else.                                      *)
C16_RulesBetweenTopLevel ==
    Formatted =>
        LET tops == postInfo.comments
            n == Len(tops)
        IN  /\ Cardinality(Separators) = IF n = 0 THEN 0 ELSE n - 1
            /\ \A j \in 1..(n - 1) :
                  LET this == SummaryAt(tops[j])
                      next == SummaryAt(tops[j + 1])
                  IN  /\ this < next
                      /\ next - 2 \in Separators
                      /\ markdown[next - 1] = BlankLine
                      /\ { markdown[i].of : i \in { m \in (this + 1)..(next - 1) :
                                                    markdown[m].kind = "summary" } }
                            = DescendantIds(tops[j])
            /\ \A i \in Separators :
                  /\ i + 2 <= Len(markdown)
                  /\ markdown[i + 2].kind = "summary"
                  /\ markdown[i + 2].indent = 0
                  /\ \E j \in 2..n : i + 2 = SummaryAt(tops[j])

\* a document for two top-level comments, each with nested replies
C16_Witness ==
    /\ Formatted
    /\ Len(postInfo.comments) = 2
    /\ \A k \in Range(postInfo.comments) : Len(comments[k].children) = 2
    /\ Cardinality(Separators) = 1

----------------------------------------------------------------------------
(* Vocabulary of the properties of the text functions.                     *)

\* formatCommentText has returned
TextDone == pc = "textDone"

\* decodeHtmlEntities has returned
Decoded == pc = "decoded"

\* the anchors among the children of the body
AnchorsOfBody ==
    { i \in 1..Len(html.children) : html.children[i].tag = "a" }

\* the href is on the allow-list: http:, https:, a fragment, a root-relative
\* path, or a relative path without a colon
AllowListed(h) ==
    LET t == toLowerCase(trim(h))
    IN  \/ startsWith(t, << "h", "t", "t", "p", ":" >>)
        \/ startsWith(t, << "h", "t", "t", "p", "s", ":" >>)
        \/ startsWith(t, << "#" >>)
        \/ startsWith(t, << "/" >>)
        \/ ~includes(t, << ":" >>)

\* the positions of s where the text of a Markdown link meets its target
LinkMarkups(s) == { i \in 1..Len(s) : HasAt(s, i, << "]", "(" >>) }

ExecutableSchemes == { << "j", "a", "v", "a", "s", "c", "r", "i", "p", "t", ":" >>, << "d", "a", "t", "a", ":" >>, << "v", "b", "s", "c", "r", "i", "p", "t", ":" >> }

(* C17: the converted body has link markup only for anchors whose href is  *)
(* on the allow-list; an anchor with any other href contributes its text   *)
(* content only, and no executable scheme occurs in the output.            *)
C17_UnsafeLinksStripped ==
    TextDone =>
        /\ Cardinality(LinkMarkups(formatted))
             <= Cardinality({ i \in AnchorsOfBody :
                                AllowListed(html.children[i].href) })
        /\ \A i \in AnchorsOfBody :
              ~AllowListed(html.children[i].href) =>
                 /\ ~includes(formatted, trim(html.children[i].href))
                 /\ includes(formatted, textContent(html.children[i]))
                 /\ Len(html.children) = 1 =>
                       formatted = textContent(html.children[i])
        /\ \A scheme \in ExecutableSchemes :
              ~includes(toLowerCase(formatted), scheme)

\* an anchor with a javascript: href next to an anchor with an https: href:
\* the text of the first, a link for the second
C17_Witness ==
    /\ TextDone
    /\ Len(html.children) = 2
    /\ html.children[1].tag = "a"
    /\ html.children[1].href = << "j", "a", "v", "a", "s", "c", "r", "i", "p", "t", ":", "a", "l", "e", "r", "t", "(", "1", ")" >>
    /\ html.children[2].tag = "a"
    /\ html.children[2].href = << "h", "t", "t", "p", "s", ":", "/", "/", "a", ".", "b" >>
    /\ formatted = LinkText \o << "[" >> \o LinkText \o << "]", "(", "h", "t", "t", "p", "s", ":", "/", "/", "a", ".", "b", ")" >>

RECURSIVE SplitLines(_, _)
\* the lines of s: s split at its line breaks (acc is the line being read)
SplitLines(s, acc) ==
    IF s = << >> THEN << acc >>
    ELSE IF Head(s) = "\n" THEN << acc >> \o SplitLines(Tail(s), << >>)
    ELSE SplitLines(Tail(s), Append(acc, Head(s)))

\* <p>Hello <b>world</b></p><pre><code>x&lt;1</code></pre>
ExampleBody ==
    Body(<< Element("p", << >>, << TextNode(<< "H", "e", "l", "l", "o", " " >>),
                                   Element("b", << >>, << TextNode(<< "w", "o", "r", "l", "d" >>) >>) >>),
            Element("pre", << >>,
                    << Element("code", << >>, << TextNode(<< "x", "&", "l", "t", ";", "1" >>) >>) >>) >>)

(* C18: the body <p>Hello <b>world</b></p><pre><code>x&lt;1</code></pre>    *)
(* converts to the paragraph `Hello **world**` on a line of its own, one   *)
(* or more empty lines, then a fenced block holding the raw text x<1 once, *)
(* without backticks of the inner code element and without entities.       *)
C18_ParagraphThenFence ==
    (TextDone /\ html = ExampleBody) =>
        LET lines == SplitLines(formatted, << >>)
            n == Len(lines)
        IN  /\ n >= 5
            /\ lines[1] = << "H", "e", "l", "l", "o", " ", "*", "*", "w", "o", "r", "l", "d", "*", "*" >>
            /\ \A m \in 2..(n - 3) : lines[m] = << >>
            /\ lines[n - 2] = Fence
            /\ lines[n - 1] = << "x", "<", "1" >>
            /\ lines[n] = Fence
            /\ \A k \in 1..Len(EntityTable) :
                  ~includes(formatted, EntityTable[k][1])

\* s[i..] begins with a literal tag: <name>, </name> or <name/>; the
\* position of its `>`, 0 if it does not
LiteralTagEnd(s, i) ==
    IF i > Len(s) THEN 0
    ELSE IF s[i] # "<" THEN 0
    ELSE LET a == IF HasAt(s, i + 1, << "/" >>) THEN i + 2 ELSE i + 1
         IN  IF a > Len(s) THEN 0
             ELSE IF ~IsLetter(s[a]) THEN 0
             ELSE LET b == SkipAlnum(s, a + 1)
                      c == IF HasAt(s, b, << "/" >>) THEN b + 1 ELSE b
                  IN  IF HasAt(s, c, << ">" >>) THEN c ELSE 0

\* position i of s lies inside a fenced region: after an odd number of fences
InFence(s, i) ==
    Cardinality({ j \in 1..(i - 1) : HasAt(s, j, Fence) }) % 2 = 1

\* s[i..e] lies between two backticks with no backtick in between
InBackticks(s, i, e) ==
    \E a \in 1..(i - 1) : \E b \in (e + 1)..Len(s) :
        /\ s[a] = Backtick
        /\ s[b] = Backtick
        /\ \A m \in (a + 1)..(b - 1) : s[m] # Backtick

\* the children of the body that are code: pre and code elements
CodeOfBody ==
    { i \in 1..Len(html.children) : html.children[i].tag \in { "pre", "code" } }

(* C19: with wrapHtmlTags enabled every literal tag of the returned text   *)
(* that is outside a fenced region stands between backticks, and the       *)
(* content of every fenced region and inline-code span is as converted.    *)
C19_LiteralTagsWrapped ==
    (TextDone /\ settings.wrapHtmlTags) =>
        /\ \A i \in 1..Len(formatted) :
              LiteralTagEnd(formatted, i) # 0 =>
                 \/ InFence(formatted, i)
                 \/ InBackticks(formatted, i, LiteralTagEnd(formatted, i))
        /\ \A i \in CodeOfBody :
              includes(formatted,
                       decodeHtmlEntities(ConvertNode(html.children[i], "body")))

RECURSIVE DecodedOnce(_)
\* s read once from left to right, every entity replaced by its character
DecodedOnce(s) ==
    IF s = << >> THEN << >>
    ELSE IF \E k \in 1..Len(EntityTable) : HasAt(s, 1, EntityTable[k][1])
    THEN LET k == CHOOSE j \in 1..Len(EntityTable) : HasAt(s, 1, EntityTable[j][1])
         IN  EntityTable[k][2]
             \o DecodedOnce(SubSeq(s, Len(EntityTable[k][1]) + 1, Len(s)))
    ELSE << Head(s) >> \o DecodedOnce(Tail(s))

(* C20: decodeHtmlEntities decodes every entity occurrence exactly once:   *)
(* its result is the text read once with every entity replaced, so that    *)
(* `&amp;` followed by the rest of an entity E yields the text of E.       *)
C20_DecodedExactlyOnce ==
    Decoded =>
        /\ formatted = DecodedOnce(text)
        /\ \A k \in 1..Len(EntityTable) :
              text = AMP \o Tail(EntityTable[k][1]) =>
                 formatted = EntityTable[k][1]

----------------------------------------------------------------------------
(* Properties of the summary line.                                         *)

(* C22: with enhancedLinks enabled, the summary line of every comment of   *)
(* the forest, whichever strategy acquired it, renders the author as a     *)
(* link to the profile and the timestamp as a link to the permalink of the *)
(* comment; with enhancedLinks disabled neither is a link.                 *)
C22_EnhancedLinksOnEveryComment ==
    Formatted =>
        \A i \in 1..Len(markdown) :
            markdown[i].kind = "summary" =>
                markdown[i].links = IF settings.enhancedLinks
                                    THEN { "author", "time" }
                                    ELSE {}

----------------------------------------------------------------------------
(* Skipped comments of the structured strategy.                            *)

\* the fetch of comment n produced no node: it threw, had a status other
\* than 200, had no record, or the record is flagged deleted or dead
Skipped(n) == outcome[n] \in { "failed", "removed" }

\* the comments below comment n in the source
SubtreeOf(n) == { d \in CommentIds : n \in Ancestors(d) }

(* C23: in the structured strategy, once a comment is skipped no request   *)
(* is ever issued for a comment of its subtree, and no comment of its      *)
(* subtree is a node of the forest or of any array of the heap.            *)
C23_SkippedSubtreeUntouched ==
    \A n \in CommentIds :
        Skipped(n) =>
            \A d \in SubtreeOf(n) :
                /\ ~Requested(d)
                /\ outcome[d] = "none"
                /\ \A k \in 1..Len(comments) : comments[k].id # ApiCommentId(d)
                /\ via = "api" => ApiCommentId(d) \notin ForestIds

\* the traversal is over and returned a forest: a removed comment has a
\* subtree in the source, and the subtree of its sibling was fetched
C23_Witness ==
    /\ TraversalOver
    /\ via = "api"
    /\ \E n, m \in CommentIds :
          /\ outcome[n] = "removed" /\ SubtreeOf(n) # {}
          /\ outcome[m] = "ok" /\ SubtreeOf(m) # {}
          /\ \E d \in SubtreeOf(m) : ApiCommentId(d) \in ForestIds

----------------------------------------------------------------------------
(* Ownership and back-reference.                                           *)

\* the nodes whose children array holds node k
OwnersOf(k) == { p \in 1..Len(comments) : k \in Range(comments[p].children) }

\* a forest was returned in which a comment has a reply
NestedForest == Returned /\ \E k \in ForestNodes : comments[k].children # << >>

(* C24: in every forest scrapeComments returns, a node that is not         *)
(* top-level is in the children array of exactly one node, once, and its   *)
(* parentId is the id of that node; a top-level node is in no children     *)
(* array and has no parentId.                                              *)
C24_ParentIdMatchesOwner ==
    Returned =>
        \A k \in ForestNodes :
            IF k \in Range(postInfo.comments)
            THEN /\ comments[k].parentId = NoId
                 /\ OwnersOf(k) = {}
            ELSE /\ Cardinality(OwnersOf(k)) = 1
                 /\ \A p \in OwnersOf(k) :
                       /\ Occurrences(comments[p].children, k) = 1
                       /\ comments[k].parentId = comments[p].id
                       /\ comments[p].id # NoId

\* a forest of the API with two top-level comments, one of them with two
\* replies
C24_Witness ==
    /\ NestedForest
    /\ via = "api"
    /\ Len(postInfo.comments) = 2
    /\ \E k \in ForestNodes : Len(comments[k].children) = 2

----------------------------------------------------------------------------
(* Document order of the reconstructed forest.                             *)

\* the ids of the rows that have one, in the order of the page
RowIds == LET withId == SelectSeq(rows, LAMBDA row : row.id # NoId)
          IN  [ i \in 1..Len(withId) |-> withId[i].id ]

\* the ids on the summary lines of the document formatComments returns for
\* the parsed forest, in the order of the document
RenderedIds ==
    LET info == [ NoPostInfo EXCEPT !.comments = rootComments ]
        doc == formatComments(info, comments, url, DEFAULT_SETTINGS)
        lines == SelectSeq(doc, LAMBDA l : l.kind = "summary")
    IN  [ i \in 1..Len(lines) |-> lines[i].of ]

(* C26: for every sequence of row levels, the pre-order traversal of the   *)
(* forest parseComments builds visits the comments in the order of their   *)
(* rows, the nodes below a node are the rows right after it, without a     *)
(* gap, and the document rendered from the forest lists the comments in    *)
(* the order of the page.                                                  *)
C26_PreOrderIsDocumentOrder ==
    Parsed =>
        /\ PreOrder(comments, rootComments)
              = [ i \in 1..Len(comments) |-> i ]
        /\ IdsOf(PreOrder(comments, rootComments)) = RowIds
        /\ \A k \in 1..Len(comments) :
              LET below == Reachable(comments, comments[k].children)
              IN  below = (k + 1)..(k + Cardinality(below))
        /\ RenderedIds = RowIds

\* a page whose first comment has a reply with a reply of its own, then a
\* second reply, and after them another top-level comment with a reply
C26_Witness ==
    /\ Parsed
    /\ Len(rootComments) >= 2
    /\ Len(comments[rootComments[1]].children) >= 2
    /\ comments[comments[rootComments[1]].children[1]].children # << >>
    /\ comments[rootComments[2]].children # << >>

----------------------------------------------------------------------------
(* The title in the frontmatter.                                           *)

\* the frontmatter and the heading were written for the title
Titled == pc = "titled"

\* the character an escape sequence of a double-quoted value stands for
Unescaped(c) ==
    CASE c = "n" -> "\n"
      [] c = "r" -> "\r"
      [] c = "t" -> "\t"
      [] OTHER -> c

RECURSIVE ReadQuoted(_, _, _)
\* a double-quoted value read from position i of s, the way a reader of the
\* frontmatter reads it: a backslash takes the next character with it, and
\* the first quote that is not taken this way ends the value
ReadQuoted(s, i, acc) ==
    IF i > Len(s) THEN [ closed |-> FALSE, at |-> 0, value |-> acc ]
    ELSE IF s[i] = "\"" THEN [ closed |-> TRUE, at |-> i, value |-> acc ]
    ELSE IF s[i] = "\\" /\ i < Len(s)
    THEN ReadQuoted(s, i + 2, Append(acc, Unescaped(s[i + 1])))
    ELSE ReadQuoted(s, i + 1, Append(acc, s[i]))

\* the lines of the text that was written
HeaderLines == SplitLines(formatted, << >>)

\* the lines that read `---`
RuleLines == { i \in 1..Len(HeaderLines) : HeaderLines[i] = << "-", "-", "-" >> }

\* the line of the title in the frontmatter: after the opening rule and the
\* four other fields
TitleLineAt == Len(SplitLines(RuleText \o FieldsText, << >>))

(* C21: for every title, the title line of the frontmatter is one line: it *)
(* holds no line feed, carriage return or tab; read as a double-quoted     *)
(* value it ends at the quote formatComments adds as the last character of *)
(* the line, and the value read is the title; the first `---` line after   *)
(* the opening one is the closing delimiter formatComments adds right      *)
(* after the title line.                                                   *)
C21_TitleStaysInItsLine ==
    (Titled /\ text # << >>) =>
        LET line == HeaderLines[TitleLineAt]
            read == ReadQuoted(line, Len(TitleKey) + 1, << >>)
        IN  /\ startsWith(line, TitleKey)
            /\ \A i \in 1..Len(line) : line[i] \notin { "\n", "\r", "\t" }
            /\ read.closed
            /\ read.at = Len(line)
            /\ read.value = text
            /\ HeaderLines[1] = << "-", "-", "-" >>
            /\ \A i \in RuleLines : i = 1 \/ i >= TitleLineAt + 1
            /\ TitleLineAt + 1 \in RuleLines

\* a title that holds a line break, a rule and a quote
C21_Witness ==
    /\ Titled
    /\ text = << "\n", "-", "-", "-", "\"" >>
    /\ HeaderLines[TitleLineAt]
          = TitleKey \o << "\\", "n", "-", "-", "-", "\\", "\"", "\"" >>

----------------------------------------------------------------------------
(* The timestamp format of one acquisition.                                *)

\* the comments of the source that are nodes of the returned forest
InForest(n) == ApiCommentId(n) \in ForestIds

(* C25: every timestamp of a PostInfo the structured strategy returned is  *)
(* formatted with the dateFormat that was in effect when scrapeComments    *)
(* was called, whatever the settings tab did to dateFormat while the       *)
(* comments were fetched.                                                  *)
C25_OneDateFormatPerCall ==
    (Returned /\ via = "api") =>
        \A n \in CommentIds :
            InForest(n) => times[n] = FormatUsed(startFormat)

----------------------------------------------------------------------------
(* Properties of the entry points.                                         *)

\* the calls of the callback
Fetches == 1..Len(fetches)

(* C30: the modal calls onSubmit only with a URL that passed validateURL:  *)
(* not empty and beginning with http(s)://news.ycombinator.com/, whether   *)
(* the button or the Enter key submitted it.                               *)
C30_OnlyValidatedUrlsSubmitted ==
    \A i \in Fetches : validateURL(fetches[i].url)

\* scrapeComments returned zero top-level comments to call i, or threw
NothingScraped(f) ==
    f.scraped \in { "empty", "InvalidUrl", "NoItemId", "FetchFailed" }

(* C27: in both entry points, when scrapeComments returns zero top-level   *)
(* comments or throws, formatComments and createNote are not invoked and   *)
(* no file is written: the vault grows only by the path a call with        *)
(* comments gives to vault.create.                                         *)
C27_NoteOnlyForComments ==
    [][ /\ \A i \in 1..Len(fetches') :
              NothingScraped(fetches'[i]) =>
                  /\ ~fetches'[i].formatted
                  /\ fetches'[i].fileName = NoPath
                  /\ fetches'[i].created = NoPath
                  /\ fetches'[i].pc = "done"
        /\ vault' # vault =>
              \E i \in Fetches :
                  /\ fetches'[i].scraped = "comments"
                  /\ fetches'[i].formatted
                  /\ vault' = vault \cup { fetches'[i].created } ]_vars

\* a call from the ribbon icon got zero comments and a call from the
\* command got an error, and both are over; the vault is as it was
C27_Witness ==
    /\ \E i, j \in Fetches :
          /\ fetches[i].entry = "ribbon" /\ fetches[i].scraped = "empty"
          /\ fetches[j].entry = "command" /\ fetches[j].scraped = "FetchFailed"
          /\ fetches[i].pc = "done" /\ fetches[j].pc = "done"
    /\ vault = {}

(* C28: on every completion path of a fetch the persistent notice is       *)
(* eventually hidden: success, empty result, invalid URL, acquisition      *)
(* error, and an error thrown by formatComments, generateFileName or       *)
(* createNote.                                                             *)
C28_NoticeEventuallyHidden ==
    \A i \in 1..MaxFetches :
        (Len(fetches) >= i) ~> (Len(fetches) >= i /\ fetches[i].notice = "hidden")

(* C29: createNote never calls vault.create on a path that exists, and two *)
(* overlapping calls that generate the same file name both end with their  *)
(* note created, under distinct paths.                                     *)
C29_NoCollision ==
    /\ \A i \in Fetches : ~fetches[i].collided
    /\ \A i, j \in Fetches :
          (/\ i # j
           /\ fetches[i].pc = "done" /\ fetches[j].pc = "done"
           /\ fetches[i].fileName # NoPath
           /\ fetches[i].fileName = fetches[j].fileName)
          => /\ fetches[i].created # NoPath
             /\ fetches[j].created # NoPath
             /\ fetches[i].created # fetches[j].created

====
